---- MODULE Spec2Model ----
(***************************************************************************)
(* copypaste.fyi: the paste store (src/lib.rs), the AEAD / hybrid crypto   *)
(* module (src/server/crypto.rs), the gates (time.rs, attestation.rs,      *)
(* tor.rs) and the read handlers show, show_raw and show_api               *)
(* (src/server/handlers.rs), as a state machine.                           *)
(*                                                                         *)
(* Byte strings are symbolic: a byte string is a record whose tag says how *)
(* it was made (random draw, UTF-8 bytes of a string, SHA-256 digest, AEAD *)
(* ciphertext).  SHA-256 is collision free and an AEAD ciphertext opens    *)
(* only under the key and nonce that sealed it.                            *)
(***************************************************************************)
EXTENDS Integers, Sequences, FiniteSets, TLC

\* ------------------------------------------------------------------------
\* Bounds of the model
\* ------------------------------------------------------------------------
\* number of clock advances explored
MaxTicks == 2
\* number of read requests explored in one behaviour
MaxRequests == 2
\* number of create requests explored in one behaviour
MaxCreates == 1
\* number of distinct values a random draw can take
NumRand == 2

\* ------------------------------------------------------------------------
\* Option and Result
\* ------------------------------------------------------------------------
None == [some |-> FALSE]
Some(v) == [some |-> TRUE, v |-> v]

Ok(v) == [ok |-> TRUE, val |-> v]
Err(e) == [ok |-> FALSE, err |-> e]

\* ------------------------------------------------------------------------
\* Symbolic byte strings
\* ------------------------------------------------------------------------
\* OsRng.fill_bytes(&mut [0u8; len]): the draw v
RandBytes(len, v) == [tag |-> "rand", len |-> len, v |-> v]
\* str::as_bytes
as_bytes(s) == [tag |-> "utf8", s |-> s]
\* Sha256::new(); update(a); update(b); finalize()
Sha256(a, b) == [tag |-> "sha256", len |-> 32, pre |-> <<a, b>>]
\* Sha256 over one update
Sha256One(a) == [tag |-> "sha256", len |-> 32, pre |-> <<a>>]
\* String::from_utf8: only the bytes of a string are a string
from_utf8(bytes) == IF bytes.tag = "utf8" THEN Ok(bytes.s) ELSE Err("InvalidKey")
\* length of a byte string as try_into::<[u8; N]> sees it (-1: not a fixed-size draw)
ByteLen(bytes) == IF bytes.tag \in {"rand", "sha256"} THEN bytes.len ELSE -1

\* base64 STANDARD.encode: bytes to text
B64Encode(bytes) == [tag |-> "b64", of |-> bytes]
\* a literal string that is stored in a field that should hold base64
RawString(s) == [tag |-> "str", s |-> s]
\* base64 STANDARD.decode: only text produced by the encoder (or the empty
\* string) decodes
B64Decode(text) ==
    IF text.tag = "b64" THEN Ok(text.of)
    ELSE IF text.tag = "str" /\ text.s = "" THEN Ok(as_bytes(""))
    ELSE Err("InvalidKey")

\* format!("{}|{}|{}|{}|{}", ...): five base64 texts joined by '|'
JoinPipe(parts) == [tag |-> "joined", parts |-> parts]
\* str::split('|'): base64 text holds no '|', so a joined text splits into its
\* parts and any other text is one part
SplitPipe(text) == IF text.tag = "joined" THEN text.parts ELSE <<text>>

\* Aead::encrypt of cipher under key and nonce
AeadEncrypt(cipher, key, nonce, pt) ==
    [tag |-> "aead", cipher |-> cipher, key |-> key, nonce |-> nonce, pt |-> pt]
\* Aead::decrypt: the tag verifies only under the sealing cipher, key and nonce
AeadDecrypt(cipher, key, nonce, ct) ==
    IF ct.tag = "aead" /\ ct.cipher = cipher /\ ct.key = key /\ ct.nonce = nonce
    THEN Ok(ct.pt)
    ELSE Err("InvalidKey")

\* ------------------------------------------------------------------------
\* src/server/crypto.rs
\* ------------------------------------------------------------------------
Algorithms == {"None", "Aes256Gcm", "ChaCha20Poly1305", "XChaCha20Poly1305",
               "KyberHybridAes256Gcm"}

\* nonce sizes of the classical schemes
AesNonceLen == 12
ChaNonceLen == 12
XNonceLen == 24
SaltLen == 16
PqKeyLen == 32
KemCiphertextLen == 64

Plain(text) == [kind |-> "plain", text |-> text]
Encrypted(algorithm, ciphertext, nonce, salt) ==
    [kind |-> "encrypted", algorithm |-> algorithm, ciphertext |-> ciphertext,
     nonce |-> nonce, salt |-> salt]
Stego(algorithm, ciphertext, nonce, salt) ==
    [kind |-> "stego", algorithm |-> algorithm, ciphertext |-> ciphertext,
     nonce |-> nonce, salt |-> salt]

derive_key_material(key, salt) == Sha256(salt, as_bytes(key))

\* the random draws one encrypt_content call makes
RandDraws == [salt : 1..NumRand, nonce : 1..NumRand, pq_private : 1..NumRand,
              kem_secret : 1..NumRand]

\* one classical scheme of encrypt_content
EncryptClassical(text, derived, algorithm, nonceLen, rnd) ==
    LET nonce_bytes == RandBytes(nonceLen, rnd.nonce)
        ciphertext == AeadEncrypt(algorithm, derived, nonce_bytes, as_bytes(text))
    IN  Encrypted(algorithm, B64Encode(ciphertext), B64Encode(nonce_bytes),
                  B64Encode(RandBytes(SaltLen, rnd.salt)))

\* the hybrid scheme of encrypt_content: the AES key is derived from a
\* freshly drawn kem_shared_secret and the passphrase
EncryptKyber(text, key, rnd) ==
    LET pq_public_key == RandBytes(PqKeyLen, 0)
        pq_private_key == RandBytes(PqKeyLen, rnd.pq_private)
        kem_shared_secret == RandBytes(PqKeyLen, rnd.kem_secret)
        kem_ciphertext == RandBytes(KemCiphertextLen, 0)
        nonce_bytes == RandBytes(AesNonceLen, rnd.nonce)
        aes_key == Sha256(kem_shared_secret, as_bytes(key))
        ciphertext_aes == AeadEncrypt("Aes256Gcm", aes_key, nonce_bytes, as_bytes(text))
        combined_ciphertext ==
            JoinPipe(<<B64Encode(kem_ciphertext), B64Encode(pq_public_key),
                       B64Encode(ciphertext_aes), B64Encode(nonce_bytes),
                       B64Encode(pq_private_key)>>)
    IN  Encrypted("KyberHybridAes256Gcm", combined_ciphertext, RawString(""),
                  RawString(""))

encrypt_content(text, key, algorithm, rnd) ==
    LET salt == RandBytes(SaltLen, rnd.salt)
        derived == derive_key_material(key, salt)
    IN  CASE algorithm = "None" -> Plain(text)
          [] algorithm = "Aes256Gcm" ->
                EncryptClassical(text, derived, "Aes256Gcm", AesNonceLen, rnd)
          [] algorithm = "ChaCha20Poly1305" ->
                EncryptClassical(text, derived, "ChaCha20Poly1305", ChaNonceLen, rnd)
          [] algorithm = "XChaCha20Poly1305" ->
                EncryptClassical(text, derived, "XChaCha20Poly1305", XNonceLen, rnd)
          [] algorithm = "KyberHybridAes256Gcm" -> EncryptKyber(text, key, rnd)

\* OpenUtf8 reporting a plaintext that is not UTF-8 as an error of its own
OpenUtf8_Utf8Error(cipher, key, nonce, ct) ==
    LET opened == AeadDecrypt(cipher, key, nonce, ct)
    IN  IF ~opened.ok THEN Err("InvalidKey")
        ELSE IF from_utf8(opened.val).ok THEN from_utf8(opened.val)
        ELSE Err("InvalidUtf8")

\* AEAD open followed by String::from_utf8, every failure InvalidKey
OpenUtf8(cipher, key, nonce, ct) ==
    LET opened == AeadDecrypt(cipher, key, nonce, ct)
    IN  IF opened.ok THEN from_utf8(opened.val) ELSE Err("InvalidKey")

\* the hybrid branch of decrypt_content: the shared secret is recomputed as
\* SHA-256(pq_private_key || aes_nonce)
DecryptKyber(ciphertext, key_str) ==
    LET parts == SplitPipe(ciphertext)
    IN  IF Len(parts) # 5 THEN Err("InvalidKey")
        ELSE LET pq_ciphertext == B64Decode(parts[1])
                 pq_public_key == B64Decode(parts[2])
                 aes_ciphertext == B64Decode(parts[3])
                 aes_nonce == B64Decode(parts[4])
                 pq_private_key == B64Decode(parts[5])
             IN  IF ~(pq_ciphertext.ok /\ pq_public_key.ok /\ aes_ciphertext.ok
                      /\ aes_nonce.ok /\ pq_private_key.ok)
                 THEN Err("InvalidKey")
                 ELSE LET shared_secret == Sha256(pq_private_key.val, aes_nonce.val)
                          aes_key == Sha256(shared_secret, as_bytes(key_str))
                      IN  IF ByteLen(aes_nonce.val) # AesNonceLen
                          THEN Err("InvalidKey")
                          ELSE OpenUtf8("Aes256Gcm", aes_key, aes_nonce.val,
                                        aes_ciphertext.val)

\* the classical branches of decrypt_content
DecryptClassical(algorithm, ciphertext, nonce, salt, extracted_key) ==
    LET salt_bytes == B64Decode(salt)
        nonce_bytes_vec == B64Decode(nonce)
        cipher_bytes == B64Decode(ciphertext)
    IN  IF ~(salt_bytes.ok /\ nonce_bytes_vec.ok /\ cipher_bytes.ok)
        THEN Err("InvalidKey")
        ELSE LET derived == derive_key_material(extracted_key, salt_bytes.val)
                 open(nonceLen) ==
                    IF ByteLen(nonce_bytes_vec.val) # nonceLen THEN Err("InvalidKey")
                    ELSE OpenUtf8(algorithm, derived, nonce_bytes_vec.val,
                                  cipher_bytes.val)
             IN  CASE algorithm = "None" -> from_utf8(cipher_bytes.val)
                   [] algorithm = "Aes256Gcm" -> open(AesNonceLen)
                   [] algorithm = "ChaCha20Poly1305" -> open(ChaNonceLen)
                   [] algorithm = "XChaCha20Poly1305" -> open(XNonceLen)
                   [] algorithm = "KyberHybridAes256Gcm" -> Err("InvalidKey")

\* decrypt_content asking for the passphrase before it looks at the variant
decrypt_content_KeyFirst(content, key) ==
    IF ~key.some THEN Err("MissingKey")
    ELSE IF content.kind = "plain" THEN Ok(content.text)
    ELSE IF content.algorithm = "KyberHybridAes256Gcm"
         THEN DecryptKyber(content.ciphertext, key.v)
         ELSE DecryptClassical(content.algorithm, content.ciphertext, content.nonce,
                               content.salt, key.v)

decrypt_content(content, key) ==
    IF content.kind = "plain" THEN Ok(content.text)
    ELSE IF ~key.some THEN Err("MissingKey")
    ELSE IF content.algorithm = "KyberHybridAes256Gcm"
         THEN DecryptKyber(content.ciphertext, key.v)
         ELSE DecryptClassical(content.algorithm, content.ciphertext, content.nonce,
                               content.salt, key.v)

\* ------------------------------------------------------------------------
\* src/server/time.rs, src/server/attestation.rs
\* ------------------------------------------------------------------------
\* evaluate_time_lock looking at not_after before not_before
evaluate_time_lock_LateFirst(metadata, t) ==
    IF metadata.not_after.some /\ t > metadata.not_after.v
    THEN Some([state |-> "TooLate", at |-> metadata.not_after.v])
    ELSE IF metadata.not_before.some /\ t < metadata.not_before.v
    THEN Some([state |-> "TooEarly", at |-> metadata.not_before.v])
    ELSE None

\* evaluate_time_lock on the metadata of a paste: None when not locked
evaluate_time_lock(metadata, t) ==
    IF metadata.not_before.some /\ t < metadata.not_before.v
    THEN Some([state |-> "TooEarly", at |-> metadata.not_before.v])
    ELSE IF metadata.not_after.some /\ t > metadata.not_after.v
    THEN Some([state |-> "TooLate", at |-> metadata.not_after.v])
    ELSE None

\* base64(SHA-256(secret)) as requirement_from_request stores it
SharedSecretHash(secret) == B64Encode(Sha256One(as_bytes(secret)))

\* str::trim on the texts of the model
Trim(text) ==
    CASE text = " s1 " -> "s1"
      [] text = " " -> ""
      [] OTHER -> text

\* requirement_from_request, shared-secret variant: the hash of the trimmed
\* secret
requirement_from_request(request) ==
    LET secret == Trim(request.secret)
    IN  IF secret = "" THEN Err("Shared secret cannot be empty")
        ELSE Ok([kind |-> "shared_secret", hash |-> SharedSecretHash(secret)])

\* verify_attestation, shared-secret variant
verify_attestation(requirement, query, t) ==
    IF ~query.attest.some \/ query.attest.v = ""
    THEN [verdict |-> "Prompt", invalid |-> FALSE]
    ELSE IF SharedSecretHash(query.attest.v) = requirement.hash
    THEN [verdict |-> "Granted", invalid |-> FALSE]
    ELSE [verdict |-> "Prompt", invalid |-> TRUE]

\* ------------------------------------------------------------------------
\* src/server/attestation.rs: TOTP
\* ------------------------------------------------------------------------
\* the largest i32
I32Max == 2147483647
\* the smallest i32
I32Min == (-I32Max) - 1

\* a u32 as its top bit and its low 31 bits
U32(hi, lo) == [hi |-> hi, lo |-> lo]
\* the u32 of a small natural number
U32Of(n) == U32(0, n)
\* u32::MAX and 2^31
U32Max == U32(1, I32Max)
U32TopBit == U32(1, 0)

\* `value as i32`: the same 32 bits read as two's complement
as_i32(u) == IF u.hi = 0 THEN u.lo ELSE (u.lo - I32Max) - 1

\* unary minus on i32: -(i32::MIN) overflows, which panics in a build with
\* overflow checks and wraps to i32::MIN in a build without
neg_i32(i) ==
    IF i = I32Min THEN {[panic |-> TRUE, v |-> 0], [panic |-> FALSE, v |-> I32Min]}
    ELSE {[panic |-> FALSE, v |-> -i]}

\* the TOTP secrets of the model: one that is base32, one that is not
TotpSecrets == {"JBSWY3DPEHPK3PXP", "not base32!"}

\* decode_totp_secret: BASE32.decode of the normalized secret
decode_totp_secret(secret) ==
    IF secret = "JBSWY3DPEHPK3PXP" THEN Some(as_bytes("Hello!")) ELSE None

\* totp_code: the truncated HMAC-SHA1 of the counter, as digits decimal
\* digits; HMAC is taken to be collision free
totp_code(secret_bytes, counter, digits) ==
    Some([tag |-> "totp", key |-> secret_bytes, counter |-> counter,
          digits |-> digits, spaced |-> FALSE])

\* a code typed with blanks between its digits
Spaced(code) == [code EXCEPT !.spaced = TRUE]
\* code.chars().filter(is_ascii_digit): the digits of the code
Sanitize(code) == [code EXCEPT !.spaced = FALSE]

\* counter.checked_sub / counter.checked_add on the u64 counter
AdjustCounter(counter, offset) ==
    IF offset < 0
    THEN IF -offset > counter THEN None ELSE Some(counter + offset)
    ELSE Some(counter + offset)

\* the counters whose code can be the presented code
CodeCounters(code) == IF code.tag = "totp" THEN {code.counter} ELSE {}

\* what a verify_totp call comes to: it returns a bool, or it panics
Returned(b) == [panic |-> FALSE, accepted |-> b]
Panicked == [panic |-> TRUE, accepted |-> FALSE]

\* verify_totp: its possible outcomes.  The loop over
\* -(allowed_drift as i32) ..= (allowed_drift as i32) is followed for the
\* offsets that lead to a counter of the presented code.
verify_totp(secret, code, digits, step, allowed_drift, t) ==
    LET secret_bytes == decode_totp_secret(secret)
        sanitized_code == Sanitize(code)
        clock == IF t > 0 THEN t ELSE 0
    IN  IF ~secret_bytes.some THEN {Returned(FALSE)}
        ELSE IF sanitized_code.digits # digits THEN {Returned(FALSE)}
        ELSE IF step = 0 THEN {Returned(FALSE)}
        ELSE LET counter == clock \div step
                 last == as_i32(allowed_drift)
             IN  {IF first.panic THEN Panicked
                  ELSE Returned(\E k \in CodeCounters(sanitized_code) :
                                  /\ (k - counter) \in first.v..last
                                  /\ AdjustCounter(counter, k - counter) = Some(k)
                                  /\ totp_code(secret_bytes.v, k, digits)
                                       = Some(sanitized_code))
                  : first \in neg_i32(last)}

\* the defaults of requirement_from_request
DefaultDigits == 6
DefaultStep == 30
DefaultDrift == 1
MinDigits == 4
MaxDigits == 10

\* requirement_from_request, TOTP variant
totp_requirement_from_request(request) ==
    LET digits == IF request.digits.some THEN request.digits.v ELSE DefaultDigits
        step == IF request.step.some THEN request.step.v ELSE DefaultStep
        allowed_drift == IF request.allowed_drift.some THEN request.allowed_drift.v
                         ELSE U32Of(DefaultDrift)
    IN  IF request.secret = "" THEN Err("TOTP secret cannot be empty")
        ELSE IF ~(digits \in MinDigits..MaxDigits)
        THEN Err("TOTP digits must be between 4 and 10")
        ELSE IF step = 0 THEN Err("TOTP step must be greater than zero")
        ELSE Ok([kind |-> "totp", secret |-> request.secret, digits |-> digits,
                 step |-> step, allowed_drift |-> allowed_drift])

\* ------------------------------------------------------------------------
\* State
\* ------------------------------------------------------------------------
VARIABLES
    entries,      \* MemoryPasteStore.entries: id -> Option<StoredPaste>
    persisted,    \* what the persistence adapter holds: id -> Option<StoredPaste>
    persistence,  \* MemoryPasteStore.persistence is Some(adapter)
    now,          \* the wall clock, Unix seconds
    readers,      \* the read requests in flight, one record per handler task
    webhooks,     \* trigger_webhook calls so far, per paste and event
    burnReads,    \* completed burn reads (show, show_raw) per paste
    dropped,
         \* pastes removed by a delete_paste that was cancelled in adapter.delete
    createOut,    \* the response of the last create request, with its body
    statsOut,     \* the StoreStats a stats() call is returning
    nTicks, nRequests, nCreates,
    cry,          \* the crypto harness: inputs, stored content and result
    totp,         \* the TOTP harness: request, requirement, code and verdict
    tasks,        \* store operations in flight, statement by statement
    call          \* a call of a pure function: its arguments and its result

vars == <<entries, persisted, persistence, now, readers, webhooks, burnReads,
          dropped, createOut, statsOut, nTicks, nRequests, nCreates, cry, totp,
          tasks, call>>

storeVars == <<entries, persisted, persistence, now, readers, webhooks, burnReads,
               dropped, createOut, statsOut, nTicks, nRequests, nCreates>>

Ids == {"stellar-otter-10"}
Readers == {"r1", "r2"}
Endpoints == {"show", "show_raw", "show_api"}
Serials == 1..MaxCreates

SecondsPerMinute == 60

\* ------------------------------------------------------------------------
\* src/lib.rs: MemoryPasteStore
\* ------------------------------------------------------------------------
\* is_expired with the clock reading t
is_expired(paste, t) ==
    IF paste.expires_at.some THEN t > paste.expires_at.v ELSE FALSE

MapRemove(map, id) == [map EXCEPT ![id] = None]
MapInsert(map, id, paste) == [map EXCEPT ![id] = Some(paste)]

\* get_all_paste_ids: map.keys()
get_all_paste_ids == {id \in Ids : entries[id].some}

\* adapter.load(id): the stored copy, or a failure
AdapterLoad(id) ==
    {[how |-> IF persisted[id].some THEN "load_some" ELSE "load_none",
      val |-> persisted[id]],
     [how |-> "load_err", val |-> None]}

\* the None arm of get_paste without the is_expired check on the loaded paste
GetPasteMiss_NoExpiryCheck(id, t) ==
    IF persistence
    THEN {IF l.how = "load_some"
          THEN [result |-> "Ok", paste |-> l.val, how |-> l.how,
                map |-> MapInsert(entries, id, l.val.v)]
          ELSE [result |-> "NotFound", paste |-> None, how |-> l.how,
                map |-> entries]
          : l \in AdapterLoad(id)}
    ELSE {[result |-> "NotFound", paste |-> None, how |-> "no_adapter",
           map |-> entries]}

\* the None arm of get_paste returning the loaded paste without inserting it
GetPasteMiss_NoInsert(id, t) ==
    IF persistence
    THEN {IF l.how = "load_some"
          THEN IF is_expired(l.val.v, t)
               THEN [result |-> "Expired", paste |-> None, how |-> l.how,
                     map |-> entries]
               ELSE [result |-> "Ok", paste |-> l.val, how |-> l.how,
                     map |-> entries]
          ELSE [result |-> "NotFound", paste |-> None, how |-> l.how,
                map |-> entries]
          : l \in AdapterLoad(id)}
    ELSE {[result |-> "NotFound", paste |-> None, how |-> "no_adapter",
           map |-> entries]}

\* the None arm of get_paste handing the adapter's error to the caller
GetPasteMiss_ErrorSurfaced(id, t) ==
    IF persistence
    THEN {IF l.how = "load_some"
          THEN IF is_expired(l.val.v, t)
               THEN [result |-> "Expired", paste |-> None, how |-> l.how,
                     map |-> entries]
               ELSE [result |-> "Ok", paste |-> l.val, how |-> l.how,
                     map |-> MapInsert(entries, id, l.val.v)]
          ELSE [result |-> IF l.how = "load_err" THEN "AdapterError"
                           ELSE "NotFound",
                paste |-> None, how |-> l.how, map |-> entries]
          : l \in AdapterLoad(id)}
    ELSE {[result |-> "NotFound", paste |-> None, how |-> "no_adapter",
           map |-> entries]}

\* the None arm of get_paste: fall back to the adapter
GetPasteMiss(id, t) ==
    IF persistence
    THEN {IF l.how = "load_some"
          THEN IF is_expired(l.val.v, t)
               THEN [result |-> "Expired", paste |-> None, how |-> l.how,
                     map |-> entries]
               ELSE [result |-> "Ok", paste |-> l.val, how |-> l.how,
                     map |-> MapInsert(entries, id, l.val.v)]
          ELSE [result |-> "NotFound", paste |-> None, how |-> l.how,
                map |-> entries]
          : l \in AdapterLoad(id)}
    ELSE {[result |-> "NotFound", paste |-> None, how |-> "no_adapter",
           map |-> entries]}

\* get_paste under the write lock: the possible outcomes, each with the map
\* it leaves
get_paste(id, t) ==
    IF entries[id].some
    THEN IF ~is_expired(entries[id].v, t)
         THEN {[result |-> "Ok", paste |-> entries[id], how |-> "map",
                map |-> entries]}
         ELSE {[result |-> "Expired", paste |-> None, how |-> "map",
                map |-> MapRemove(entries, id)]}
    ELSE GetPasteMiss(id, t)

\* how a call of the adapter can end, when there is an adapter
AdapterResults == IF persistence THEN {"ok", "err"} ELSE {"no_adapter"}

\* the calls a store operation made to the adapter
AdapterCalls(method, id, r) ==
    IF r = "no_adapter" THEN <<>>
    ELSE <<[method |-> method, id |-> id, result |-> r]>>

\* delete_paste calling adapter.delete only for an id the map held
delete_paste_OnlyExisting(id) ==
    {[existed |-> entries[id].some,
      map |-> MapRemove(entries, id),
      stored |-> IF r = "ok" /\ entries[id].some THEN MapRemove(persisted, id)
                 ELSE persisted,
      adapter |-> IF entries[id].some THEN AdapterCalls("delete", id, r)
                  ELSE <<>>]
     : r \in AdapterResults}

\* delete_paste under the write lock: map.remove, then adapter.delete whose
\* error is dropped
delete_paste(id) ==
    {[existed |-> entries[id].some,
      map |-> MapRemove(entries, id),
      stored |-> IF r = "ok" THEN MapRemove(persisted, id) ELSE persisted,
      adapter |-> AdapterCalls("delete", id, r)]
     : r \in AdapterResults}

\* the ids nanoid!(10) returns in the model
NanoIds == {"V1StGXR8_Z"}

\* generate_paste_id: an adjective-noun-number candidate that is not a key of
\* the map or, when the candidates drawn were all keys of the map, the
\* nanoid, which is not looked up. The ids a run can draw are those of the
\* map's domain.
generate_paste_id(map) ==
    LET candidates == DOMAIN map \ NanoIds
        free == {id \in candidates : ~map[id].some}
    IN  free \cup (IF free # candidates THEN DOMAIN map \cap NanoIds ELSE {})

\* create_paste keeping the paste in the map only when adapter.save succeeded
create_paste_InsertIfSaved(paste) ==
    {[id |-> d.id,
      map |-> IF d.r = "err" THEN entries ELSE MapInsert(entries, d.id, paste),
      stored |-> IF d.r = "ok" THEN MapInsert(persisted, d.id, paste)
                 ELSE persisted,
      adapter |-> AdapterCalls("save", d.id, d.r)]
     : d \in [id : generate_paste_id(entries), r : AdapterResults]}

\* create_paste under the write lock: insert, then adapter.save whose error
\* is dropped
create_paste(paste) ==
    {[id |-> d.id,
      map |-> MapInsert(entries, d.id, paste),
      stored |-> IF d.r = "ok" THEN MapInsert(persisted, d.id, paste)
                 ELSE persisted,
      adapter |-> AdapterCalls("save", d.id, d.r)]
     : d \in [id : generate_paste_id(entries), r : AdapterResults]}

\* stats(): the totals of the snapshot taken with clock reading t
stats(t) ==
    LET present == {id \in Ids : entries[id].some}
        expired == {id \in present : is_expired(entries[id].v, t)}
    IN  [total_pastes |-> Cardinality(present),
         active_pastes |-> Cardinality(present \ expired),
         expired_pastes |-> Cardinality(expired)]

\* ------------------------------------------------------------------------
\* src/server/tor.rs
\* ------------------------------------------------------------------------
Hosts == {"example.com", "abcdefgh.onion"}
\* str::ends_with(".onion") on the hosts of the model
EndsWithOnion(host) == host \in {"abcdefgh.onion"}
\* TorConfig::is_onion_host with no configured onion host
is_onion_host(host) == EndsWithOnion(host)
\* OnionAccess::is_onion of a request
is_onion(req) == IF req.host.some THEN is_onion_host(req.host.v) ELSE FALSE

\* ------------------------------------------------------------------------
\* src/server/handlers.rs: the read handlers
\* ------------------------------------------------------------------------
\* PasteViewQuery and the Host header of a read request
Requests == [key : {None, Some("k1"), Some("bad")},
             attest : {None, Some("s1"), Some("bad")},
             host : {Some(h) : h \in Hosts}]

Resp(status, kind, body) == [status |-> status, kind |-> kind, body |-> body]
NoResp == Resp(0, "none", None)

\* the attestation gate of show and show_raw
AttestationGate(paste, req, t) ==
    IF paste.metadata.attestation.some
    THEN verify_attestation(paste.metadata.attestation.v, req, t)
    ELSE [verdict |-> "Granted", invalid |-> FALSE]

\* show_raw on a Prompt verdict: 403 for a wrong input, 401 for none
AttestationFailure(att) ==
    IF att.invalid THEN Resp(403, "forbidden", None)
    ELSE Resp(401, "unauthorized", None)

\* show_raw with the attestation gate evaluated before the time lock
ShowRawGates_AttestationFirst(paste, req, t) ==
    IF paste.metadata.tor_access_only /\ ~is_onion(req)
    THEN Resp(403, "forbidden", None)
    ELSE LET att == AttestationGate(paste, req, t)
         IN  IF att.verdict = "Prompt"
             THEN AttestationFailure(att)
             ELSE IF evaluate_time_lock(paste.metadata, t).some
             THEN Resp(423, "locked", None)
             ELSE LET dec == decrypt_content(paste.content, req.key)
                  IN  IF dec.ok THEN Resp(200, "paste", Some(dec.val))
                      ELSE IF dec.err = "MissingKey"
                      THEN Resp(401, "unauthorized", None)
                      ELSE Resp(403, "forbidden", None)

\* show_raw after get_paste returned Ok(paste): the response, the burn
\* pipeline apart
ShowRawGates(paste, req, t) ==
    IF paste.metadata.tor_access_only /\ ~is_onion(req)
    THEN Resp(403, "forbidden", None)
    ELSE IF evaluate_time_lock(paste.metadata, t).some
    THEN Resp(423, "locked", None)
    ELSE LET att == AttestationGate(paste, req, t)
         IN  IF att.verdict = "Prompt"
             THEN AttestationFailure(att)
             ELSE LET dec == decrypt_content(paste.content, req.key)
                  IN  IF dec.ok THEN Resp(200, "paste", Some(dec.val))
                      ELSE IF dec.err = "MissingKey"
                      THEN Resp(401, "unauthorized", None)
                      ELSE Resp(403, "forbidden", None)

\* show after get_paste returned Ok(paste): the page it renders
ShowGates(paste, req, t) ==
    IF paste.metadata.tor_access_only /\ ~is_onion(req)
    THEN Resp(403, "forbidden", None)
    ELSE IF evaluate_time_lock(paste.metadata, t).some
    THEN Resp(200, "time_locked", None)
    ELSE LET att == AttestationGate(paste, req, t)
         IN  IF att.verdict = "Prompt"
             THEN Resp(200, "attestation_prompt", None)
             ELSE LET dec == decrypt_content(paste.content, req.key)
                  IN  IF dec.ok THEN Resp(200, "paste", Some(dec.val))
                      ELSE IF dec.err = "MissingKey"
                      THEN Resp(200, "key_prompt", None)
                      ELSE Resp(200, "invalid_key", None)

\* show_api: get_paste then decrypt_content, every store error 404
ShowApi(o, req) ==
    IF o.result = "Ok"
    THEN LET dec == decrypt_content(o.paste.v.content, req.key)
         IN  IF dec.ok THEN Resp(200, "paste", Some(dec.val))
             ELSE IF dec.err = "MissingKey"
             THEN Resp(401, "unauthorized", None)
             ELSE Resp(403, "forbidden", None)
    ELSE Resp(404, "not_found", None)

\* show and show_raw when get_paste returned an error
StoreErrorResp(ep, result) ==
    IF result = "NotFound" THEN Resp(404, "not_found", None)
    ELSE IF ep = "show" THEN Resp(200, "expired", None)
    ELSE Resp(410, "gone", None)

\* store.get_paste(&child.id) as build_bundle_overview sees it: the ids
\* generate_paste_id issues are the keys of the map and of the adapter, any
\* other id is found in neither
ChildLookup(id, t) ==
    IF id \in Ids THEN {o.result : o \in get_paste(id, t)} ELSE {"NotFound"}

\* the status build_bundle_overview shows for a get_paste result
ChildStatus(result) ==
    IF result = "Ok" THEN "available"
    ELSE IF result = "Expired" THEN "expired"
    ELSE "consumed"

\* build_bundle_overview: None for no children, else one item per child
build_bundle_overview(bundle, t) ==
    IF Len(bundle.children) = 0 THEN {None}
    ELSE {Some([i \in 1..Len(bundle.children) |->
                  [id |-> bundle.children[i].id,
                   label |-> bundle.children[i].label,
                   status |-> ChildStatus(f[i])]])
          : f \in {g \in [1..Len(bundle.children) -> {"Ok", "Expired", "NotFound"}] :
                     \A i \in 1..Len(bundle.children) :
                        g[i] \in ChildLookup(bundle.children[i].id, t)}}

IdleReader ==
    [pc |-> "idle", ep |-> "none", id |-> "none", how |-> "none",
     result |-> "none", paste |-> None, req |-> None, tnow |-> 0,
     deleted |-> FALSE, resp |-> NoResp, overview |-> None]

\* a response (of a read or of stats) is being returned: nothing else is
\* scheduled before the handler has returned
Returning == (\E r \in Readers : readers[r].pc = "done") \/ statsOut.some

trigger_webhook(wh, paste, event) ==
    IF paste.metadata.webhook
    THEN [wh EXCEPT ![paste.serial][event] = @ + 1]
    ELSE wh

\* a read request arrives and runs up to the return of get_paste; show_api
\* has no suspension point after it and returns in the same step
Start(r) ==
    /\ readers[r].pc = "idle"
    /\ ~Returning
    /\ nRequests < MaxRequests
    /\ \E ep \in Endpoints, id \in Ids :
         \E o \in get_paste(id, now) :
            /\ entries' = o.map
            /\ LET got == [IdleReader EXCEPT !.ep = ep, !.id = id, !.how = o.how,
                                             !.result = o.result, !.paste = o.paste]
               IN  IF ep = "show_api"
                   THEN \E req \in Requests :
                          readers' = [readers EXCEPT ![r] =
                                        [got EXCEPT !.pc = "done", !.req = Some(req),
                                                    !.tnow = now,
                                                    !.resp = ShowApi(o, req)]]
                   ELSE IF o.result = "Ok"
                   THEN readers' = [readers EXCEPT ![r] = [got EXCEPT !.pc = "fetched"]]
                   ELSE readers' = [readers EXCEPT ![r] =
                                      [got EXCEPT !.pc = "done", !.tnow = now,
                                                  !.resp = StoreErrorResp(ep, o.result)]]
    /\ nRequests' = nRequests + 1
    /\ UNCHANGED <<persisted, persistence, now, webhooks, burnReads, dropped,
                   createOut, statsOut,
                   nTicks, nCreates, cry, totp, tasks,
                   call>>

\* the burn pipeline running for every paste that decrypted
EntersBurn_EveryPaste(paste, resp) == resp.body.some

\* the burn pipeline is entered in the Ok arm of decrypt_content, for a paste
\* with burn_after_reading
EntersBurn(paste, resp) == resp.body.some /\ paste.burn_after_reading

\* show / show_raw from the clock reading to the next suspension point: the
\* gates and the decryption; show_raw on a burn paste dispatches Viewed here
Gates(r) ==
    /\ readers[r].pc = "fetched"
    /\ ~Returning
    /\ \E req \in Requests :
         LET me == readers[r]
             paste == me.paste.v
             resp == IF me.ep = "show_raw" THEN ShowRawGates(paste, req, now)
                     ELSE ShowGates(paste, req, now)
             burning == EntersBurn(paste, resp)
             overviews == IF me.ep = "show" /\ resp.body.some
                             /\ paste.metadata.bundle.some
                          THEN build_bundle_overview(paste.metadata.bundle.v, now)
                          ELSE {None}
         IN  /\ \E ov \in overviews :
                  readers' = [readers EXCEPT ![r] =
                                [me EXCEPT !.pc = IF burning THEN "burn" ELSE "done",
                                           !.req = Some(req), !.tnow = now,
                                           !.resp = resp, !.overview = ov]]
             /\ webhooks' = IF burning /\ me.ep = "show_raw"
                            THEN trigger_webhook(webhooks, paste, "Viewed")
                            ELSE webhooks
    /\ UNCHANGED <<entries, persisted, persistence, now, burnReads, dropped,
                   createOut, statsOut,
                   nTicks, nRequests, nCreates, cry, totp, tasks,
                   call>>

\* the burn pipeline from store.delete_paste to the return of the handler:
\* show fires its queued Viewed and Consumed events after the delete,
\* show_raw fires Consumed
Burn(r) ==
    /\ readers[r].pc = "burn"
    /\ ~Returning
    /\ \E d \in delete_paste(readers[r].id) :
         LET me == readers[r]
             paste == me.paste.v
             viewed == IF me.ep = "show"
                       THEN trigger_webhook(webhooks, paste, "Viewed")
                       ELSE webhooks
         IN  /\ entries' = d.map
             /\ persisted' = d.stored
             /\ webhooks' = IF d.existed
                            THEN trigger_webhook(viewed, paste, "Consumed")
                            ELSE viewed
             /\ readers' = [readers EXCEPT ![r] =
                              [me EXCEPT !.pc = "done", !.deleted = d.existed]]
             /\ burnReads' = [burnReads EXCEPT ![paste.serial] = @ + 1]
    /\ UNCHANGED <<persistence, now, dropped, createOut, statsOut, nTicks,
                   nRequests, nCreates,
                   cry, totp, tasks, call>>

\* the client disconnects while the handler is suspended before
\* store.delete_paste: the task is dropped where it stands
Cancel(r) ==
    /\ readers[r].pc \in {"fetched", "burn"}
    /\ ~Returning
    /\ readers' = [readers EXCEPT ![r] = IdleReader]
    /\ UNCHANGED <<entries, persisted, persistence, now, webhooks, burnReads,
                   dropped, createOut, statsOut, nTicks, nRequests, nCreates,
                   cry, totp, tasks, call>>

\* the client disconnects while delete_paste awaits adapter.delete: the map
\* entry is removed, the adapter call is dropped with the task, and nothing
\* after the delete runs
CancelInDelete(r) ==
    /\ readers[r].pc = "burn"
    /\ ~Returning
    /\ persistence
    /\ entries[readers[r].id].some
    /\ entries' = MapRemove(entries, readers[r].id)
    /\ dropped' = dropped \cup {entries[readers[r].id].v.serial}
    /\ readers' = [readers EXCEPT ![r] = IdleReader]
    /\ UNCHANGED <<persisted, persistence, now, webhooks, burnReads, createOut,
                   statsOut, nTicks, nRequests, nCreates, cry, totp, tasks,
                   call>>

\* the handler has returned its response
Finish(r) ==
    /\ readers[r].pc = "done"
    /\ readers' = [readers EXCEPT ![r] = IdleReader]
    /\ UNCHANGED <<entries, persisted, persistence, now, webhooks, burnReads,
                   dropped, createOut,
                   statsOut, nTicks, nRequests, nCreates, cry, totp, tasks,
                   call>>

\* ------------------------------------------------------------------------
\* src/server/handlers.rs: create_paste_internal
\* ------------------------------------------------------------------------
\* a u64 counted from 0, and counted down from u64::MAX
U64(n) == [from_max |-> FALSE, n |-> n]
U64FromMax(n) == [from_max |-> TRUE, n |-> n]
\* `as i64` on a u64: values above i64::MAX become negative
as_i64(u) == IF u.from_max THEN (-1) - u.n ELSE u.n

BaseRequest ==
    [content |-> "vanish", encryption |-> None, burn_after_reading |-> FALSE,
     webhook |-> FALSE, retention_minutes |-> None, time_lock |-> None,
     attestation |-> None, tor_access_only |-> FALSE, bundle |-> None]

EncryptionK1 == Some([algorithm |-> "Aes256Gcm", key |-> "k1"])
LockWindow == Some([not_before |-> Some("60"), not_after |-> Some("90")])
\* time locks apply_time_lock refuses: not_after before not_before, not_after
\* equal to not_before (written as RFC3339), a text that is no timestamp
LockInverted == Some([not_before |-> Some("90"), not_after |-> Some("60")])
LockEmpty ==
    Some([not_before |-> Some("60"),
          not_after |-> Some("1970-01-01T00:01:00+00:00")])
LockUnparsed == Some([not_before |-> Some("soon"), not_after |-> Some("90")])
SecretS1 == Some([kind |-> "shared_secret", secret |-> "s1"])
\* a shared secret of blanks
SecretBlank == Some([kind |-> "shared_secret", secret |-> " "])
\* an encryption config that names algorithm none
EncryptionNone == Some([algorithm |-> "None", key |-> ""])
\* a bundle of one child
BundleOneChild ==
    Some([children |-> <<[content |-> "child", label |-> Some("share-1")]>>])

GatedRequest ==
    [BaseRequest EXCEPT !.encryption = EncryptionK1, !.time_lock = LockWindow,
                        !.attestation = SecretS1, !.tor_access_only = TRUE]

\* the CreatePasteRequest bodies of the model: no gate, each gate alone, all
\* gates, with and without burn_after_reading, webhook and retention
CreateRequests ==
    {BaseRequest,
     [BaseRequest EXCEPT !.burn_after_reading = TRUE],
     [BaseRequest EXCEPT !.burn_after_reading = TRUE, !.webhook = TRUE],
     [BaseRequest EXCEPT !.burn_after_reading = TRUE, !.webhook = TRUE,
                         !.retention_minutes = Some(U64(1))],
     [BaseRequest EXCEPT !.retention_minutes = Some(U64(0))],
     [BaseRequest EXCEPT !.retention_minutes = Some(U64FromMax(0))],
     [BaseRequest EXCEPT !.encryption = EncryptionK1],
     [BaseRequest EXCEPT !.time_lock = LockWindow],
     [BaseRequest EXCEPT !.attestation = SecretS1],
     [BaseRequest EXCEPT !.tor_access_only = TRUE],
     GatedRequest,
     [GatedRequest EXCEPT !.burn_after_reading = TRUE, !.webhook = TRUE],
     [BaseRequest EXCEPT !.content = " "],
     [BaseRequest EXCEPT !.attestation = SecretBlank],
     [BaseRequest EXCEPT !.time_lock = LockInverted],
     [BaseRequest EXCEPT !.time_lock = LockEmpty],
     [BaseRequest EXCEPT !.time_lock = LockUnparsed],
     [BaseRequest EXCEPT !.bundle = BundleOneChild],
     [BaseRequest EXCEPT !.encryption = EncryptionNone, !.bundle = BundleOneChild],
     [BaseRequest EXCEPT !.encryption = EncryptionK1, !.bundle = BundleOneChild]}

\* the draws encrypt_content makes for the pastes of the store
StoreDraws == [salt |-> 1, nonce |-> 1, pq_private |-> 1, kem_secret |-> 1]

\* resolve_content
resolve_content(body) ==
    IF body.encryption.some
    THEN encrypt_content(body.content, body.encryption.v.key,
                         body.encryption.v.algorithm, StoreDraws)
    ELSE Plain(body.content)

\* parse_timestamp on the texts of the model: UNIX seconds, else RFC3339
parse_timestamp(input) ==
    CASE input = "60" -> Ok(60)
      [] input = "90" -> Ok(90)
      [] input = "1970-01-01T00:01:00+00:00" -> Ok(60)
      [] OTHER -> Err("expected UNIX seconds or RFC3339 timestamp")

\* apply_time_lock accepting a window whose not_after equals not_before
apply_time_lock_EndBeforeStart(lock) ==
    LET start == IF lock.not_before.some
                 THEN parse_timestamp(lock.not_before.v) ELSE Ok(0)
        end == IF lock.not_after.some
               THEN parse_timestamp(lock.not_after.v) ELSE Ok(0)
    IN  IF ~start.ok \/ ~end.ok THEN Err(400)
        ELSE IF lock.not_before.some /\ lock.not_after.some
                  /\ end.val < start.val
        THEN Err(400)
        ELSE Ok([not_before |-> IF lock.not_before.some THEN Some(start.val)
                                ELSE None,
                 not_after |-> IF lock.not_after.some THEN Some(end.val)
                               ELSE None])

\* apply_time_lock: the not_before and not_after it writes to the metadata,
\* or the status of its error
apply_time_lock(lock) ==
    LET start == IF lock.not_before.some
                 THEN parse_timestamp(lock.not_before.v) ELSE Ok(0)
        end == IF lock.not_after.some
               THEN parse_timestamp(lock.not_after.v) ELSE Ok(0)
    IN  IF ~start.ok \/ ~end.ok THEN Err(400)
        ELSE IF lock.not_before.some /\ lock.not_after.some
                  /\ end.val <= start.val
        THEN Err(400)
        ELSE Ok([not_before |-> IF lock.not_before.some THEN Some(start.val)
                                ELSE None,
                 not_after |-> IF lock.not_after.some THEN Some(end.val)
                               ELSE None])

\* the StoredPaste create_paste_internal builds: expires_at from the clock
\* reading t, created_at from the reading after it; serial names the create
\* call
BuildPaste(body, t, later, serial) ==
    [serial |-> serial,
     content |-> resolve_content(body),
     created_at |-> later,
     expires_at |-> IF body.retention_minutes.some
                    THEN Some(t + as_i64(body.retention_minutes.v)
                                    * SecondsPerMinute)
                    ELSE None,
     burn_after_reading |-> body.burn_after_reading,
     metadata |->
        [not_before |-> IF body.time_lock.some
                        THEN apply_time_lock(body.time_lock.v).val.not_before
                        ELSE None,
         not_after |-> IF body.time_lock.some
                       THEN apply_time_lock(body.time_lock.v).val.not_after
                       ELSE None,
         attestation |-> IF body.attestation.some
                         THEN Some(requirement_from_request(body.attestation.v).val)
                         ELSE None,
         webhook |-> body.webhook,
         tor_access_only |-> body.tor_access_only,
         access_count |-> 0,
         bundle |-> IF body.bundle.some
                    THEN Some([children |->
                                 [i \in 1..Len(body.bundle.v.children) |->
                                    [id |-> "",
                                     label |-> body.bundle.v.children[i].label]]])
                    ELSE None,
         bundle_label |-> None]]

\* str::trim().is_empty() on the contents of the model
IsBlank(content) == content \in {"", " "}

\* the early returns of create_paste_internal: empty content, an
\* attestation requirement_from_request refuses, a time lock apply_time_lock
\* refuses, a bundle without an encryption config
CreateRejected(body) ==
    \/ IsBlank(body.content)
    \/ (body.attestation.some /\ ~requirement_from_request(body.attestation.v).ok)
    \/ (body.time_lock.some /\ ~apply_time_lock(body.time_lock.v).ok)
    \/ (body.bundle.some /\ ~body.encryption.some)

\* what current_timestamp can return on the read after one that returned
\* now: the same second or a later one
ClockAfter ==
    {now} \cup (IF nTicks < MaxTicks THEN {now + SecondsPerMinute} ELSE {})

\* POST / and POST /api/pastes
Create ==
    /\ nCreates < MaxCreates
    /\ ~Returning
    /\ \E body \in CreateRequests :
         IF CreateRejected(body)
         THEN /\ createOut' = Some([status |-> 400, id |-> None, body |-> body])
              /\ UNCHANGED <<entries, persisted, now, nTicks>>
         ELSE \E later \in ClockAfter :
              \E c \in create_paste(BuildPaste(body, now, later,
                                               nCreates + 1)) :
                /\ entries' = c.map
                /\ persisted' = c.stored
                /\ createOut' = Some([status |-> 200, id |-> Some(c.id),
                                      body |-> body])
                /\ now' = later
                /\ nTicks' = IF later = now THEN nTicks ELSE nTicks + 1
    /\ nCreates' = nCreates + 1
    /\ UNCHANGED <<persistence, readers, webhooks, burnReads, dropped,
                   statsOut, nRequests, cry, totp, tasks,
                   call>>

\* GET /api/stats/summary: store.stats()
Stats ==
    /\ ~Returning
    /\ get_all_paste_ids # {}
    /\ statsOut' = Some(stats(now))
    /\ UNCHANGED <<entries, persisted, persistence, now, readers, webhooks,
                   burnReads, dropped, createOut, nTicks, nRequests,
                   nCreates, cry, totp, tasks, call>>

StatsReturn ==
    /\ statsOut.some
    /\ statsOut' = None
    /\ UNCHANGED <<entries, persisted, persistence, now, readers, webhooks,
                   burnReads, dropped, createOut, nTicks, nRequests,
                   nCreates, cry, totp, tasks, call>>

\* the wall clock advances by a minute
Tick ==
    /\ nTicks < MaxTicks
    /\ ~Returning
    /\ now' = now + SecondsPerMinute
    /\ nTicks' = nTicks + 1
    /\ UNCHANGED <<entries, persisted, persistence, readers, webhooks,
                   burnReads, dropped, createOut,
                   statsOut, nRequests, nCreates, cry, totp, tasks,
                   call>>

\* ------------------------------------------------------------------------
\* The store and its handlers
\* ------------------------------------------------------------------------
CryOff == [pc |-> "off"]

\* MemoryPasteStore::new() or ::with_persistence(adapter), nothing stored
InitStore ==
    /\ entries = [id \in Ids |-> None]
    /\ persisted = [id \in Ids |-> None]
    /\ persistence \in BOOLEAN
    /\ now = 0
    /\ readers = [r \in Readers |-> IdleReader]
    /\ webhooks = [s \in Serials |-> [Viewed |-> 0, Consumed |-> 0]]
    /\ burnReads = [s \in Serials |-> 0]
    /\ dropped = {}
    /\ createOut = None
    /\ statsOut = None
    /\ nTicks = 0
    /\ nRequests = 0
    /\ nCreates = 0

\* verify_totp is not being called
TotpOff == [pc |-> "off"]

\* no store operation is in flight
Tasks == {"t1", "t2"}
IdleTask == [pc |-> "idle", op |-> "none", id |-> "none", guard |-> "none",
             result |-> "none", paste |-> None]
TasksOff == [t \in Tasks |-> IdleTask]

\* no pure function is being called
CallOff == [pc |-> "off"]

Init ==
    /\ InitStore
    /\ cry = CryOff /\ totp = TotpOff /\ tasks = TasksOff /\ call = CallOff

Next ==
    \/ Create
    \/ Tick
    \/ Stats
    \/ StatsReturn
    \/ \E r \in Readers : Start(r)
    \/ \E r \in Readers : Gates(r)
    \/ \E r \in Readers : Burn(r)
    \/ \E r \in Readers : Cancel(r)
    \/ \E r \in Readers : CancelInDelete(r)
    \/ \E r \in Readers : Finish(r)

Spec == Init /\ [][Next]_vars

\* ------------------------------------------------------------------------
\* encrypt_content and decrypt_content on their own
\* ------------------------------------------------------------------------
Texts == {"vanish", "secret text"}
Passphrases == {"k1", "k2"}

CryInputs ==
    [pc : {"input"}, text : Texts, key : Passphrases, algorithm : Algorithms,
     rnd : RandDraws]

\* stored content that did not come out of encrypt_content unchanged: the
\* Stego variant around the same fields, and fields that are not base64
Forged(c) ==
    LET enc == encrypt_content(c.text, c.key, c.algorithm, c.rnd)
    IN  IF enc.kind = "plain"
        THEN {Encrypted("Aes256Gcm", RawString("dummy"), RawString("dummy"),
                        RawString("dummy")),
              Stego("Aes256Gcm", RawString("dummy"), RawString("dummy"),
                    RawString("dummy"))}
        ELSE {Stego(enc.algorithm, enc.ciphertext, enc.nonce, enc.salt)}

\* the nonce size encrypt_content uses for an algorithm
NonceLenOf(algorithm) ==
    IF algorithm = "XChaCha20Poly1305" THEN XNonceLen
    ELSE IF algorithm = "ChaCha20Poly1305" THEN ChaNonceLen
    ELSE AesNonceLen

\* a nonce size the algorithm does not use
OtherNonceLen(algorithm) ==
    IF algorithm = "XChaCha20Poly1305" THEN AesNonceLen ELSE XNonceLen

\* text that is not base64
NotBase64 == RawString("%%")
\* bytes that are not UTF-8
NotUtf8 == RandBytes(SaltLen, 0)

\* the ways stored content is damaged
TamperKinds ==
    {"bad_base64", "nonce_length", "tag_mismatch", "not_utf8", "hybrid_blob"}

\* damaged classical content: one field not base64, a nonce of another
\* size, a ciphertext the tag does not cover, a sealed plaintext that is not
\* UTF-8
TamperedClassical(c, enc) ==
    LET salt == RandBytes(SaltLen, c.rnd.salt)
        nonce == RandBytes(NonceLenOf(enc.algorithm), c.rnd.nonce)
        derived == derive_key_material(c.key, salt)
    IN  {[how |-> "bad_base64", content |-> [enc EXCEPT !.ciphertext = NotBase64]],
         [how |-> "bad_base64", content |-> [enc EXCEPT !.nonce = NotBase64]],
         [how |-> "bad_base64", content |-> [enc EXCEPT !.salt = NotBase64]],
         [how |-> "nonce_length",
          content |-> [enc EXCEPT !.nonce =
                         B64Encode(RandBytes(OtherNonceLen(enc.algorithm),
                                             c.rnd.nonce))]],
         [how |-> "tag_mismatch",
          content |-> [enc EXCEPT !.ciphertext = B64Encode(NotUtf8)]],
         [how |-> "tag_mismatch",
          content |-> [enc EXCEPT !.salt = B64Encode(RandBytes(SaltLen, 0))]],
         [how |-> "not_utf8",
          content |-> [enc EXCEPT !.ciphertext =
                         B64Encode(AeadEncrypt(enc.algorithm, derived, nonce,
                                               NotUtf8))]]}

\* damaged hybrid content: a blob of fewer than five parts, a part that is
\* not base64, a nonce of another size
TamperedKyber(c, enc) ==
    LET parts == SplitPipe(enc.ciphertext)
    IN  {[how |-> "hybrid_blob",
          content |-> [enc EXCEPT !.ciphertext = JoinPipe(SubSeq(parts, 1, 4))]],
         [how |-> "hybrid_blob",
          content |-> [enc EXCEPT !.ciphertext = parts[3]]],
         [how |-> "nonce_length",
          content |-> [enc EXCEPT !.ciphertext =
                         JoinPipe([parts EXCEPT ![4] =
                                     B64Encode(RandBytes(XNonceLen, c.rnd.nonce))])]]}
        \cup {[how |-> "bad_base64",
                content |-> [enc EXCEPT !.ciphertext =
                               JoinPipe([parts EXCEPT ![i] = NotBase64])]]
              : i \in 1..5}

\* damaged content around algorithm None: base64 of bytes that are not UTF-8
TamperedNone ==
    {[how |-> "not_utf8",
      content |-> Encrypted("None", B64Encode(NotUtf8), RawString(""),
                            RawString(""))]}

\* the damaged versions of what encrypt_content returns for the inputs c
Tampered(c) ==
    LET enc == encrypt_content(c.text, c.key, c.algorithm, c.rnd)
    IN  IF enc.kind = "plain" THEN TamperedNone
        ELSE IF enc.algorithm = "KyberHybridAes256Gcm" THEN TamperedKyber(c, enc)
        ELSE TamperedClassical(c, enc)

InitCrypto ==
    /\ InitStore /\ ~persistence
    /\ cry \in CryInputs /\ totp = TotpOff /\ tasks = TasksOff /\ call = CallOff

CryEncrypt ==
    /\ cry.pc = "input"
    /\ cry' = [pc |-> "stored", text |-> cry.text, key |-> cry.key,
               algorithm |-> cry.algorithm, origin |-> "encrypt_content",
               content |-> encrypt_content(cry.text, cry.key, cry.algorithm,
                                           cry.rnd)]
    /\ UNCHANGED <<storeVars, totp, tasks, call>>

CryForge ==
    /\ cry.pc = "input"
    /\ \E content \in Forged(cry) :
         cry' = [pc |-> "stored", text |-> cry.text, key |-> cry.key,
                 algorithm |-> cry.algorithm, origin |-> "forged",
                 content |-> content]
    /\ UNCHANGED <<storeVars, totp, tasks, call>>

\* the stored content is damaged before it is read back
CryTamper ==
    /\ cry.pc = "input"
    /\ \E t \in Tampered(cry) :
         cry' = [pc |-> "stored", text |-> cry.text, key |-> cry.key,
                 algorithm |-> cry.algorithm, origin |-> t.how,
                 content |-> t.content]
    /\ UNCHANGED <<storeVars, totp, tasks, call>>

CryDecrypt ==
    /\ cry.pc = "stored"
    /\ \E k \in {None} \cup {Some(p) : p \in Passphrases} :
         cry' = [pc |-> "decrypted", text |-> cry.text, key |-> cry.key,
                 algorithm |-> cry.algorithm, origin |-> cry.origin,
                 content |-> cry.content, supplied |-> k,
                 out |-> decrypt_content(cry.content, k)]
    /\ UNCHANGED <<storeVars, totp, tasks, call>>

NextCrypto == CryEncrypt \/ CryForge \/ CryTamper \/ CryDecrypt

SpecCrypto == InitCrypto /\ [][NextCrypto]_vars

\* ------------------------------------------------------------------------
\* requirement_from_request and verify_totp on their own
\* ------------------------------------------------------------------------
\* the TOTP attestation requests of the model
TotpRequests ==
    [secret : TotpSecrets \cup {""},
     digits : {None, Some(3), Some(4), Some(10)},
     step : {None, Some(0), Some(60)},
     allowed_drift : {None, Some(U32Of(0)), Some(U32Of(2)), Some(U32TopBit),
                      Some(U32Max)}]

\* the clock readings of the calls
TotpTimes == {-5, 0, 59, 60, 200}
\* how far the counter of the presented code is from the current one
CodeOffsets == -3..3

TotpInputs == [pc : {"input"}, request : TotpRequests, t : TotpTimes]

InitTotp ==
    /\ InitStore /\ ~persistence
    /\ cry = CryOff /\ totp \in TotpInputs /\ tasks = TasksOff /\ call = CallOff

\* the current counter of a requirement at clock reading t
CurrentCounter(requirement, t) ==
    (IF t > 0 THEN t ELSE 0) \div requirement.step

\* requirement_from_request on the request
TotpRequire ==
    /\ totp.pc = "input"
    /\ totp' = [pc |-> "required", request |-> totp.request, t |-> totp.t,
                requirement |-> totp_requirement_from_request(totp.request)]
    /\ UNCHANGED <<storeVars, cry, tasks, call>>

\* the client presents a code: the code of a counter near the current one,
\* typed with or without blanks, or six zeros
TotpPresent ==
    /\ totp.pc = "required"
    /\ totp.requirement.ok
    /\ LET req == totp.requirement.val
           key == decode_totp_secret(req.secret)
           zeros == [tag |-> "literal", digits |-> DefaultDigits,
                     spaced |-> FALSE]
           codes == {zeros} \cup
                    IF key.some
                    THEN UNION {{totp_code(key.v, k, req.digits).v,
                                 Spaced(totp_code(key.v, k, req.digits).v)}
                                : k \in {CurrentCounter(req, totp.t) + d
                                         : d \in CodeOffsets} \cap Nat}
                    ELSE {}
       IN  \E code \in codes :
              totp' = [pc |-> "presented", request |-> totp.request, t |-> totp.t,
                       requirement |-> totp.requirement, code |-> code]
    /\ UNCHANGED <<storeVars, cry, tasks, call>>

\* verify_totp on the presented code
TotpVerify ==
    /\ totp.pc = "presented"
    /\ LET req == totp.requirement.val
       IN  \E out \in verify_totp(req.secret, totp.code, req.digits, req.step,
                                  req.allowed_drift, totp.t) :
              totp' = [pc |-> "verified", request |-> totp.request, t |-> totp.t,
                       requirement |-> totp.requirement, code |-> totp.code,
                       out |-> out]
    /\ UNCHANGED <<storeVars, cry, tasks, call>>

NextTotp == TotpRequire \/ TotpPresent \/ TotpVerify

SpecTotp == InitTotp /\ [][NextTotp]_vars

\* ------------------------------------------------------------------------
\* src/lib.rs: the store operations statement by statement
\* ------------------------------------------------------------------------
StoreOps == {"create_paste", "get_paste", "delete_paste", "stats"}

\* the pastes of the store operations: one that never expires, one that
\* expires at its creation time
LockPastes ==
    {BuildPaste(BaseRequest, 0, 0, 1),
     BuildPaste([BaseRequest EXCEPT !.retention_minutes = Some(U64(0))],
                0, 0, 1)}

\* a store that has run for a while: the map and the adapter hold a paste
\* or not
StoreContents == {[id \in Ids |-> None]}
                 \cup {[id \in Ids |-> Some(p)] : p \in LockPastes}

InitLock ==
    /\ InitStore
    /\ cry = CryOff /\ totp = TotpOff /\ tasks = TasksOff /\ call = CallOff

\* the store being in any of its contents, and the clock at any reading
LockSetup ==
    /\ nCreates = 0
    /\ nCreates' = 1
    /\ entries' \in StoreContents
    /\ persisted' \in IF persistence THEN StoreContents ELSE {persisted}
    /\ now' \in {0, SecondsPerMinute}
    /\ UNCHANGED <<persistence, readers, webhooks, burnReads, dropped, createOut,
                   statsOut, nTicks, nRequests, cry, totp, tasks,
                   call>>

\* entries.write() is held by a task
WriteLocked == \E t \in Tasks : tasks[t].guard = "write"

\* the task reaches the adapter call with the guard dropped before it
AtAdapter_GuardDropped(task) == [task EXCEPT !.pc = "adapter", !.guard = "none"]

\* the task reaches adapter.save / load / delete: the guard `map` is a local
\* of the whole function body and is still held
AtAdapter(task) == [task EXCEPT !.pc = "adapter", !.guard = "write"]

\* the operation returns and its guard is dropped
Returns(task, result) ==
    [IdleTask EXCEPT !.op = task.op, !.id = task.id, !.result = result]

\* a handler calls a store operation, which starts by waiting for the lock
OpCall(t) ==
    /\ nCreates = 1
    /\ tasks[t].pc = "idle"
    /\ nRequests < MaxRequests
    /\ \E op \in StoreOps, id \in Ids :
         tasks' = [tasks EXCEPT ![t] =
                     [IdleTask EXCEPT !.pc = "waiting", !.op = op, !.id = id]]
    /\ nRequests' = nRequests + 1
    /\ UNCHANGED <<entries, persisted, persistence, now, readers, webhooks,
                   burnReads, dropped, createOut, statsOut, nTicks, nCreates, cry,
                   totp, call>>

\* the operation gets the lock and runs to its adapter call, or to its
\* return when it makes none
OpRun(t) ==
    /\ tasks[t].pc = "waiting"
    /\ ~WriteLocked
    /\ LET me == tasks[t]
       IN  CASE me.op = "create_paste" ->
                  \E p \in LockPastes : \E c \in create_paste(p) :
                     /\ entries' = c.map
                     /\ tasks' = [tasks EXCEPT ![t] =
                          IF persistence
                          THEN AtAdapter([me EXCEPT !.id = c.id, !.paste = Some(p)])
                          ELSE Returns([me EXCEPT !.id = c.id], "created")]
             [] me.op = "get_paste" ->
                  IF entries[me.id].some \/ ~persistence
                  THEN \E o \in get_paste(me.id, now) :
                         /\ entries' = o.map
                         /\ tasks' = [tasks EXCEPT ![t] = Returns(me, o.result)]
                  ELSE /\ entries' = entries
                       /\ tasks' = [tasks EXCEPT ![t] = AtAdapter(me)]
             [] me.op = "delete_paste" ->
                  /\ entries' = MapRemove(entries, me.id)
                  /\ tasks' = [tasks EXCEPT ![t] =
                       IF persistence THEN AtAdapter(me)
                       ELSE Returns(me, IF entries[me.id].some THEN "deleted"
                                        ELSE "absent")]
             [] me.op = "stats" ->
                  /\ entries' = entries
                  /\ tasks' = [tasks EXCEPT ![t] = Returns(me, "counted")]
    /\ UNCHANGED <<persisted, persistence, now, readers, webhooks, burnReads,
                   dropped, createOut, statsOut, nTicks, nRequests, nCreates, cry,
                   totp, call>>

\* the awaited adapter call completes, with or without error, and the
\* operation returns
OpAdapter(t) ==
    /\ tasks[t].pc = "adapter"
    /\ LET me == tasks[t]
       IN  CASE me.op = "create_paste" ->
                  /\ persisted' \in {MapInsert(persisted, me.id, me.paste.v),
                                     persisted}
                  /\ entries' = entries
                  /\ tasks' = [tasks EXCEPT ![t] = Returns(me, "created")]
             [] me.op = "get_paste" ->
                  \E o \in GetPasteMiss(me.id, now) :
                     /\ entries' = o.map
                     /\ persisted' = persisted
                     /\ tasks' = [tasks EXCEPT ![t] = Returns(me, o.result)]
             [] me.op = "delete_paste" ->
                  /\ persisted' \in {MapRemove(persisted, me.id), persisted}
                  /\ entries' = entries
                  /\ tasks' = [tasks EXCEPT ![t] = Returns(me, "deleted")]
    /\ UNCHANGED <<persistence, now, readers, webhooks, burnReads, dropped,
                   createOut, statsOut, nTicks, nRequests, nCreates, cry, totp,
                   call>>

NextLock ==
    \/ LockSetup
    \/ \E t \in Tasks : OpCall(t)
    \/ \E t \in Tasks : OpRun(t)
    \/ \E t \in Tasks : OpAdapter(t)

SpecLock == InitLock /\ [][NextLock]_vars

\* ------------------------------------------------------------------------
\* The operations of MemoryPasteStore one after another
\* ------------------------------------------------------------------------
\* the ids of the store: the adjective-noun-number ids and the nanoids
StoreIds == Ids \cup NanoIds

\* no operation has run; loaded are the ids get_paste took from the adapter
\* and unsaved the ids whose adapter.save failed, while they stay in the map
NoCall == [pc |-> "idle", n |-> 0, loaded |-> {}, unsaved |-> {}]

InitStoreOps ==
    /\ entries = [id \in StoreIds |-> None]
    /\ persisted = [id \in StoreIds |-> None]
    /\ persistence \in BOOLEAN
    /\ now = 0
    /\ readers = [r \in Readers |-> IdleReader]
    /\ webhooks = [s \in Serials |-> [Viewed |-> 0, Consumed |-> 0]]
    /\ burnReads = [s \in Serials |-> 0]
    /\ dropped = {}
    /\ createOut = None
    /\ statsOut = None
    /\ nTicks = 0
    /\ nRequests = 0
    /\ nCreates = 0
    /\ cry = CryOff /\ totp = TotpOff /\ tasks = TasksOff
    /\ call = NoCall

\* the ids of ids that are keys of map
StillIn(map, ids) == {id \in ids : map[id].some}

\* store.create_paste(paste)
StoreCreate ==
    /\ \E paste \in LockPastes : \E c \in create_paste(paste) :
         /\ entries' = c.map
         /\ persisted' = c.stored
         /\ call' = [pc |-> "done", n |-> 1 - call.n, op |-> "create_paste",
                     id |-> c.id, paste |-> paste, adapter |-> c.adapter,
                     loaded |-> StillIn(c.map, call.loaded \ {c.id}),
                     unsaved |->
                        StillIn(c.map,
                                IF c.adapter # <<>> /\ c.adapter[1].result = "err"
                                THEN call.unsaved \cup {c.id}
                                ELSE call.unsaved \ {c.id})]
    /\ UNCHANGED <<persistence, now, readers, webhooks, burnReads, dropped,
                   createOut, statsOut, nTicks, nRequests, nCreates, cry, totp,
                   tasks>>

\* store.get_paste(id)
StoreGet ==
    /\ \E id \in StoreIds : \E o \in get_paste(id, now) :
         /\ entries' = o.map
         /\ call' = [pc |-> "done", n |-> 1 - call.n, op |-> "get_paste",
                     id |-> id, result |-> o.result, paste |-> o.paste,
                     how |-> o.how,
                     loaded |->
                        StillIn(o.map,
                                IF o.how = "load_some" THEN call.loaded \cup {id}
                                ELSE call.loaded),
                     unsaved |-> StillIn(o.map, call.unsaved)]
    /\ UNCHANGED <<persisted, persistence, now, readers, webhooks, burnReads,
                   dropped, createOut, statsOut, nTicks, nRequests, nCreates,
                   cry, totp, tasks>>

\* store.delete_paste(id)
StoreDelete ==
    /\ \E id \in StoreIds : \E d \in delete_paste(id) :
         /\ entries' = d.map
         /\ persisted' = d.stored
         /\ call' = [pc |-> "done", n |-> 1 - call.n, op |-> "delete_paste",
                     id |-> id, existed |-> d.existed, adapter |-> d.adapter,
                     loaded |-> StillIn(d.map, call.loaded),
                     unsaved |-> StillIn(d.map, call.unsaved)]
    /\ UNCHANGED <<persistence, now, readers, webhooks, burnReads, dropped,
                   createOut, statsOut, nTicks, nRequests, nCreates, cry, totp,
                   tasks>>

NextStoreOps ==
    \/ StoreCreate
    \/ StoreGet
    \/ StoreDelete
    \/ Tick

SpecStoreOps == InitStoreOps /\ [][NextStoreOps]_vars

\* ------------------------------------------------------------------------
\* verify_attestation on its own, both variants
\* ------------------------------------------------------------------------
\* a code of no characters, or of blanks only
BlankCode(spaced) == [tag |-> "blank", digits |-> 0, spaced |-> spaced]

\* what a verify_attestation call comes to: a verdict, or a panic
Verdict(verdict, invalid) ==
    [panic |-> FALSE, verdict |-> verdict, invalid |-> invalid]
VerdictPanicked == [panic |-> TRUE, verdict |-> "none", invalid |-> FALSE]

\* verify_attestation, TOTP variant: its possible outcomes
verify_attestation_totp(requirement, query, t) ==
    IF ~query.code.some \/ query.code.v.tag = "blank"
    THEN {Verdict("Prompt", FALSE)}
    ELSE {IF o.panic THEN VerdictPanicked
          ELSE IF o.accepted THEN Verdict("Granted", FALSE)
          ELSE Verdict("Prompt", TRUE)
          : o \in verify_totp(requirement.secret, query.code.v,
                              requirement.digits, requirement.step,
                              requirement.allowed_drift, t)}

\* verify_attestation: the match on the variant of the requirement
VerifyOutcomes(requirement, query, t) ==
    IF requirement.kind = "totp"
    THEN verify_attestation_totp(requirement, query, t)
    ELSE LET v == verify_attestation(requirement, query, t)
         IN  {Verdict(v.verdict, v.invalid)}

\* requirement_from_request: the match on the variant of the request
RequireOutcome(request) ==
    IF request.kind = "totp" THEN totp_requirement_from_request(request)
    ELSE requirement_from_request(request)

\* the attestation requests of create: shared secrets with and without
\* blanks around them, TOTP with the default drift, none, and 2^31
AttestRequests ==
    {[kind |-> "shared_secret", secret |-> x] : x \in {"s1", " s1 ", " ", ""}}
    \cup {[kind |-> "totp", secret |-> "JBSWY3DPEHPK3PXP", digits |-> None,
           step |-> Some(60), allowed_drift |-> d]
          : d \in {None, Some(U32Of(0)), Some(U32TopBit)}}

\* the attest texts and the clock readings of the reads
AttestTexts == {"", " ", "s1", " s1 ", "bad"}
AttestTimes == {0, 59, 200}

\* the queries a reader can send for a requirement
AttestQueries(requirement, t) ==
    IF requirement.kind = "totp"
    THEN LET key == decode_totp_secret(requirement.secret).v
             current == CurrentCounter(requirement, t)
             near == {totp_code(key, k, requirement.digits).v
                      : k \in {current - 1, current, current + 1} \cap Nat}
             codes == near \cup {Spaced(c) : c \in near}
                      \cup {BlankCode(FALSE), BlankCode(TRUE),
                            [tag |-> "literal", digits |-> DefaultDigits,
                             spaced |-> FALSE]}
         IN  {[attest |-> None, code |-> c]
              : c \in {None} \cup {Some(x) : x \in codes}}
    ELSE {[attest |-> a, code |-> None]
          : a \in {None} \cup {Some(x) : x \in AttestTexts}}

InitAttest ==
    /\ InitStore /\ ~persistence
    /\ cry = CryOff /\ totp = TotpOff /\ tasks = TasksOff
    /\ call \in [pc : {"input"}, request : AttestRequests, t : AttestTimes]

\* create: requirement_from_request on the request
AttestRequire ==
    /\ call.pc = "input"
    /\ call' = [pc |-> "required", request |-> call.request, t |-> call.t,
                requirement |-> RequireOutcome(call.request)]
    /\ UNCHANGED <<storeVars, cry, totp, tasks>>

\* a read of /raw/{id}: verify_attestation on the query, and what show_raw
\* makes of the verdict (None: it goes on to the decrypt gate)
AttestVerify ==
    /\ call.pc = "required"
    /\ call.requirement.ok
    /\ \E query \in AttestQueries(call.requirement.val, call.t) :
       \E out \in VerifyOutcomes(call.requirement.val, query, call.t) :
         call' = [pc |-> "verified", request |-> call.request, t |-> call.t,
                  requirement |-> call.requirement, query |-> query,
                  out |-> out,
                  raw |-> IF out.panic THEN Some(Resp(500, "panic", None))
                          ELSE IF out.verdict = "Prompt"
                          THEN Some(AttestationFailure(out))
                          ELSE None]
    /\ UNCHANGED <<storeVars, cry, totp, tasks>>

NextAttest == AttestRequire \/ AttestVerify

SpecAttest == InitAttest /\ [][NextAttest]_vars

\* ------------------------------------------------------------------------
\* evaluate_time_lock on its own
\* ------------------------------------------------------------------------
\* the bounds of a time lock, inverted windows included, and the clock
\* readings around them
LockBounds == {None, Some(10), Some(20), Some(30)}
LockTimes == {5, 10, 15, 20, 25, 30, 35}

TimeLockInputs ==
    [pc : {"input"}, not_before : LockBounds, not_after : LockBounds,
     t : LockTimes]

InitTimeLock ==
    /\ InitStore /\ ~persistence
    /\ cry = CryOff /\ totp = TotpOff /\ tasks = TasksOff
    /\ call \in TimeLockInputs

EvalTimeLock ==
    /\ call.pc = "input"
    /\ call' = [pc |-> "done", not_before |-> call.not_before,
                not_after |-> call.not_after, t |-> call.t,
                out |-> evaluate_time_lock(call, call.t)]
    /\ UNCHANGED <<storeVars, cry, totp, tasks>>

NextTimeLock == EvalTimeLock

SpecTimeLock == InitTimeLock /\ [][NextTimeLock]_vars

\* ------------------------------------------------------------------------
\* Steganography: embed_message
\* ------------------------------------------------------------------------
\* u32::to_be_bytes
to_be_bytes(n) ==
    <<(n \div 16777216) % 256, (n \div 65536) % 256, (n \div 256) % 256,
      n % 256>>

\* (byte >> shift) & 1
BitAt(byte, shift) == (byte \div (2 ^ shift)) % 2

\* the bits of the bytes, each byte from its highest bit down
BitsOf(bytes) ==
    [k \in 1..(8 * Len(bytes)) |->
        BitAt(bytes[((k - 1) \div 8) + 1], 7 - ((k - 1) % 8))]

\* (*channel & 0xFE) | bit
SetLsb(channel, bit) == (channel - (channel % 2)) + bit

\* embed_message reporting the capacity in bits
embed_message_CapacityInBits(payload, image) ==
    LET capacity_bits == image.width * image.height * 3
    IN  IF 8 * (4 + Len(payload)) > capacity_bits
        THEN Err([kind |-> "PayloadTooLarge", required |-> Len(payload),
                  capacity |-> capacity_bits])
        ELSE Ok(image)

\* embed_message on an RgbaImage: the image with the bits of the length and
\* of the payload in the lowest bits of R, G and B, pixel after pixel, or
\* PayloadTooLarge
embed_message(payload, image) ==
    LET length_bytes == to_be_bytes(Len(payload))
        bits == BitsOf(length_bytes \o payload)
        capacity_bits == image.width * image.height * 3
        total_bits == Len(bits)
    IN  IF total_bits > capacity_bits
        THEN Err([kind |-> "PayloadTooLarge", required |-> Len(payload),
                  capacity |-> capacity_bits \div 8])
        ELSE Ok([image EXCEPT !.pixels =
                   [i \in 1..Len(image.pixels) |->
                      [c \in 1..4 |->
                         LET bit_index == (i - 1) * 3 + (c - 1)
                         IN  IF c <= 3 /\ bit_index < total_bits
                             THEN SetLsb(image.pixels[i][c], bits[bit_index + 1])
                             ELSE image.pixels[i][c]]]])

\* the RgbaImage behind &mut image when embed_message has returned: the
\* return of PayloadTooLarge precedes the loop that writes the channels
carrier_after(payload, image) ==
    LET out == embed_message(payload, image)
    IN  IF out.ok THEN out.val ELSE image

\* ImageBuffer::from_pixel(width, height, pixel)
from_pixel(width, height, pixel) ==
    [width |-> width, height |-> height,
     pixels |-> [i \in 1..(width * height) |-> pixel]]

\* the carriers: 1x1, 4x3 and 4x4 images of one colour
CarrierSizes == {<<1, 1>>, <<4, 3>>, <<4, 4>>}
CarrierPixels == {<<0, 0, 0, 255>>, <<255, 0, 0, 255>>, <<1, 2, 3, 4>>}
Carriers ==
    {from_pixel(size[1], size[2], pixel) :
        size \in CarrierSizes, pixel \in CarrierPixels}

\* the payloads: up to MaxPayload bytes, and the [0u8; 16] of the tests
MaxPayload == 2
PayloadBytes == {0, 97, 255}
TestPayload == [i \in 1..16 |-> 0]
Payloads == UNION {[1..n -> PayloadBytes] : n \in 0..MaxPayload} \cup {TestPayload}

InitStego ==
    /\ InitStore /\ ~persistence
    /\ cry = CryOff /\ totp = TotpOff /\ tasks = TasksOff
    /\ call \in [pc : {"input"}, payload : Payloads, image : Carriers]

Embed ==
    /\ call.pc = "input"
    /\ call' = [pc |-> "done", payload |-> call.payload, image |-> call.image,
                out |-> embed_message(call.payload, call.image),
                carrier |-> carrier_after(call.payload, call.image)]
    /\ UNCHANGED <<storeVars, cry, totp, tasks>>

NextStego == Embed

SpecStego == InitStego /\ [][NextStego]_vars

\* ------------------------------------------------------------------------
\* stats() and get_all_paste_ids with pastes of several formats
\* ------------------------------------------------------------------------
\* the time-lock test of stats() requiring both bounds
TimeLocked_BothBounds(paste) ==
    paste.metadata.not_before.some /\ paste.metadata.not_after.some

\* paste.metadata.not_before.is_some() || paste.metadata.not_after.is_some()
TimeLocked(paste) ==
    paste.metadata.not_before.some \/ paste.metadata.not_after.some

\* the algorithm stats() counts a content under
AlgorithmOf(content) ==
    IF content.kind = "plain" THEN "None" ELSE content.algorithm

\* stats() of the map read with clock reading t: the counters, and one
\* FormatUsage and one EncryptionUsage per key of the two HashMaps
StoreStats(map, t) ==
    LET present == {id \in DOMAIN map : map[id].some}
        expired == {id \in present : is_expired(map[id].v, t)}
        formats == {map[id].v.format : id \in present}
        algorithms == {AlgorithmOf(map[id].v.content) : id \in present}
    IN  [total_pastes |-> Cardinality(present),
         active_pastes |-> Cardinality(present \ expired),
         expired_pastes |-> Cardinality(expired),
         burn_after_reading_count |->
            Cardinality({id \in present : map[id].v.burn_after_reading}),
         time_locked_count |->
            Cardinality({id \in present : TimeLocked(map[id].v)}),
         formats |->
            {[format |-> f,
              count |-> Cardinality({id \in present : map[id].v.format = f})]
             : f \in formats},
         encryption_usage |->
            {[algorithm |-> a,
              count |-> Cardinality({id \in present :
                                       AlgorithmOf(map[id].v.content) = a})]
             : a \in algorithms}]

\* the pastes of stats_reports_counts_and_breakdowns, and two with one bound
\* of the time lock each
StatsBase ==
    [format |-> "plain_text", content |-> Plain("one"), created_at |-> 0,
     expires_at |-> None, burn_after_reading |-> FALSE,
     metadata |-> [not_before |-> None, not_after |-> None]]
StatsPastes ==
    {[StatsBase EXCEPT !.burn_after_reading = TRUE,
                       !.metadata = [not_before |-> Some(1700000100),
                                     not_after |-> Some(1700000200)]],
     [StatsBase EXCEPT !.format = "json", !.expires_at = Some(0),
                       !.content = Encrypted("Aes256Gcm", RawString("cipher"),
                                             RawString("nonce"),
                                             RawString("salt"))],
     [StatsBase EXCEPT !.format = "markdown",
                       !.content = Stego("ChaCha20Poly1305",
                                         RawString("payload"),
                                         RawString("nonce"),
                                         RawString("salt"))],
     [StatsBase EXCEPT !.metadata = [not_before |-> Some(1700000100),
                                     not_after |-> None]],
     [StatsBase EXCEPT !.metadata = [not_before |-> None,
                                     not_after |-> Some(1700000200)]]}

InitStats ==
    /\ entries = [id \in StoreIds |-> None]
    /\ persisted = [id \in StoreIds |-> None]
    /\ persistence \in BOOLEAN
    /\ now = 0
    /\ readers = [r \in Readers |-> IdleReader]
    /\ webhooks = [s \in Serials |-> [Viewed |-> 0, Consumed |-> 0]]
    /\ burnReads = [s \in Serials |-> 0]
    /\ dropped = {}
    /\ createOut = None
    /\ statsOut = None
    /\ nTicks = 0
    /\ nRequests = 0
    /\ nCreates = 0
    /\ cry = CryOff /\ totp = TotpOff /\ tasks = TasksOff
    /\ call = [pc |-> "idle", n |-> 0]

\* store.create_paste(paste)
StatsCreate ==
    /\ \E paste \in StatsPastes : \E c \in create_paste(paste) :
         /\ entries' = c.map
         /\ persisted' = c.stored
         /\ call' = [pc |-> "done", n |-> 1 - call.n, op |-> "create_paste",
                     id |-> c.id]
    /\ UNCHANGED <<persistence, now, readers, webhooks, burnReads, dropped,
                   createOut, statsOut, nTicks, nRequests, nCreates, cry, totp,
                   tasks>>

\* store.get_paste(id)
StatsGet ==
    /\ \E id \in StoreIds : \E o \in get_paste(id, now) :
         /\ entries' = o.map
         /\ call' = [pc |-> "done", n |-> 1 - call.n, op |-> "get_paste",
                     id |-> id, result |-> o.result]
    /\ UNCHANGED <<persisted, persistence, now, readers, webhooks, burnReads,
                   dropped, createOut, statsOut, nTicks, nRequests, nCreates,
                   cry, totp, tasks>>

\* store.delete_paste(id)
StatsDelete ==
    /\ \E id \in StoreIds : \E d \in delete_paste(id) :
         /\ entries' = d.map
         /\ persisted' = d.stored
         /\ call' = [pc |-> "done", n |-> 1 - call.n, op |-> "delete_paste",
                     id |-> id, existed |-> d.existed]
    /\ UNCHANGED <<persistence, now, readers, webhooks, burnReads, dropped,
                   createOut, statsOut, nTicks, nRequests, nCreates, cry, totp,
                   tasks>>

\* store.stats() followed by store.get_all_paste_ids()
StatsCall ==
    /\ call' = [pc |-> "done", n |-> 1 - call.n, op |-> "stats",
                out |-> StoreStats(entries, now),
                ids |-> StillIn(entries, DOMAIN entries)]
    /\ UNCHANGED <<storeVars, cry, totp, tasks>>

NextStats ==
    \/ StatsCreate
    \/ StatsGet
    \/ StatsDelete
    \/ StatsCall
    \/ Tick

SpecStats == InitStats /\ [][NextStats]_vars

\* ------------------------------------------------------------------------
\* encrypt_content as a task next to another handler's get_paste
\* ------------------------------------------------------------------------
\* the branches of encrypt_content that await verify_encryption_with_ocaml
\* between the encryption and the return: Aes256Gcm, ChaCha20Poly1305 and
\* XChaCha20Poly1305
AwaitsVerifier(algorithm) ==
    algorithm \in {"Aes256Gcm", "ChaCha20Poly1305", "XChaCha20Poly1305"}

\* what the POST to the verifier service comes back with; encrypt_content
\* drops it
VerifierReplies == {"valid", "invalid", "unavailable"}

InitEncrypt ==
    /\ entries = [id \in StoreIds |-> None]
    /\ persisted = [id \in StoreIds |-> None]
    /\ persistence \in BOOLEAN
    /\ now = 0
    /\ readers = [r \in Readers |-> IdleReader]
    /\ webhooks = [s \in Serials |-> [Viewed |-> 0, Consumed |-> 0]]
    /\ burnReads = [s \in Serials |-> 0]
    /\ dropped = {}
    /\ createOut = None
    /\ statsOut = None
    /\ nTicks = 0
    /\ nRequests = 0
    /\ nCreates = 0
    /\ cry \in CryInputs /\ totp = TotpOff /\ tasks = TasksOff
    /\ call = NoCall

\* encrypt_content up to its return or, in the branches that call the
\* verifier, up to the .await of the request
EncryptBegin ==
    /\ cry.pc = "input"
    /\ cry' = [pc |-> IF AwaitsVerifier(cry.algorithm) THEN "verify"
                       ELSE "stored",
               text |-> cry.text, key |-> cry.key,
               algorithm |-> cry.algorithm, origin |-> "encrypt_content",
               content |-> encrypt_content(cry.text, cry.key, cry.algorithm,
                                           cry.rnd)]
    /\ UNCHANGED <<storeVars, totp, tasks, call>>

\* the verifier's reply, or the failure of the request, arrives and
\* encrypt_content returns the content it had computed
EncryptReturn ==
    /\ cry.pc = "verify"
    /\ \E reply \in VerifierReplies :
         cry' = [cry EXCEPT !.pc = "stored"]
    /\ UNCHANGED <<storeVars, totp, tasks, call>>

NextEncrypt ==
    \/ EncryptBegin
    \/ EncryptReturn
    \/ CryDecrypt
    \/ StoreGet

SpecEncrypt == InitEncrypt /\ [][NextEncrypt]_vars

\* ------------------------------------------------------------------------
\* The Redis adapter: save
\* ------------------------------------------------------------------------
\* save writing every paste with a plain set
save_AlwaysSet(id, paste, t) ==
    [command |-> "set", key |-> <<"paste:", id>>, ttl |-> None, value |-> paste]

\* RedisPersistenceAdapter::save(id, paste) when SystemTime::now() reads t:
\* the command it posts, setex with the remaining seconds when expires_at is
\* later than t, else set
save(id, paste, t) ==
    LET ttl_seconds ==
            IF paste.expires_at.some
            THEN LET remaining == paste.expires_at.v - t
                 IN  IF remaining > 0 THEN Some(remaining) ELSE None
            ELSE None
    IN  IF ttl_seconds.some
        THEN [command |-> "setex", key |-> <<"paste:", id>>,
              ttl |-> ttl_seconds, value |-> paste]
        ELSE [command |-> "set", key |-> <<"paste:", id>>,
              ttl |-> None, value |-> paste]

\* the clock readings of the adapter and the expiries of the pastes it is
\* given: none, one before every reading, and those around the readings
MaxRedisClock == 6
RedisTimes == 0..MaxRedisClock
RedisExpiries ==
    {None} \cup {Some(e) : e \in (0 - 1)..(MaxRedisClock + 1)}

InitRedis ==
    /\ InitStore /\ ~persistence
    /\ cry = CryOff /\ totp = TotpOff /\ tasks = TasksOff
    /\ call \in [pc : {"input"}, id : Ids,
                  paste : [expires_at : RedisExpiries], t : RedisTimes]

RedisSave ==
    /\ call.pc = "input"
    /\ call' = [pc |-> "done", id |-> call.id, paste |-> call.paste,
                t |-> call.t, out |-> save(call.id, call.paste, call.t)]
    /\ UNCHANGED <<storeVars, cry, totp, tasks>>

NextRedis == RedisSave

SpecRedis == InitRedis /\ [][NextRedis]_vars

\* ------------------------------------------------------------------------
\* Anchoring: manifest_hash
\* ------------------------------------------------------------------------
\* AnchorManifest::from_paste reading the store's entry of the id in place
\* of the paste it is given
from_paste_FromStore(id, paste) ==
    LET current == IF id \in DOMAIN entries /\ entries[id].some
                   THEN entries[id].v ELSE paste
    IN  [id |-> id,
         format |-> "plain_text",
         created_at |-> current.created_at,
         expires_at |-> current.expires_at,
         burn_after_reading |-> current.burn_after_reading,
         content |-> current.content,
         metadata |-> current.metadata]

\* AnchorManifest::from_paste
from_paste(id, paste) ==
    [id |-> id,
     format |-> "plain_text",
     created_at |-> paste.created_at,
     expires_at |-> paste.expires_at,
     burn_after_reading |-> paste.burn_after_reading,
     content |-> paste.content,
     metadata |-> paste.metadata]

\* serde_json::to_vec of an AnchorManifest: the fields in the order of the
\* struct under their camelCase names, expiresAt left out when None
to_vec(manifest) ==
    [tag |-> "json",
     fields |->
        <<[key |-> "id", value |-> manifest.id],
          [key |-> "format", value |-> manifest.format],
          [key |-> "createdAt", value |-> manifest.created_at]>>
        \o (IF manifest.expires_at.some
            THEN <<[key |-> "expiresAt", value |-> manifest.expires_at.v]>>
            ELSE <<>>)
        \o <<[key |-> "burnAfterReading",
              value |-> manifest.burn_after_reading],
             [key |-> "content", value |-> manifest.content],
             [key |-> "metadata", value |-> manifest.metadata]>>]

\* hex::encode: lowercase hexadecimal digits
hex_encode(bytes) == [tag |-> "hex", digits |-> "lower", of |-> bytes]

\* manifest_hash
manifest_hash(manifest) == Ok(hex_encode(Sha256One(to_vec(manifest))))

\* the ids and pastes anchored
AnchorIds == Ids \cup {"abc123"}
AnchorPastes ==
    {BuildPaste(BaseRequest, 0, 0, 1),
     BuildPaste([BaseRequest EXCEPT !.retention_minutes = Some(U64(1))],
                0, 0, 1),
     BuildPaste([BaseRequest EXCEPT !.burn_after_reading = TRUE], 0, 0, 1),
     BuildPaste(GatedRequest, 0, 0, 1)}

InitAnchor ==
    /\ InitStore
    /\ cry = CryOff /\ totp = TotpOff /\ tasks = TasksOff
    /\ call \in [pc : {"input"}, id : AnchorIds, paste : AnchorPastes]

\* the manifest of the paste is built and hashed
HashFirst ==
    /\ call.pc = "input"
    /\ call' = [pc |-> "once", id |-> call.id, paste |-> call.paste,
                first |-> manifest_hash(from_paste(call.id, call.paste))]
    /\ UNCHANGED <<storeVars, cry, totp, tasks>>

\* other requests change the map between the two calls
AnchorStoreChanges ==
    /\ call.pc = "once"
    /\ entries' \in StoreContents \ {entries}
    /\ UNCHANGED <<persisted, persistence, now, readers, webhooks, burnReads,
                   dropped, createOut, statsOut, nTicks, nRequests, nCreates,
                   cry, totp, tasks, call>>

\* the manifest of the same id and paste is built and hashed again
HashSecond ==
    /\ call.pc = "once"
    /\ call' = [pc |-> "twice", id |-> call.id, paste |-> call.paste,
                first |-> call.first,
                second |-> manifest_hash(from_paste(call.id, call.paste))]
    /\ UNCHANGED <<storeVars, cry, totp, tasks>>

NextAnchor ==
    \/ HashFirst
    \/ AnchorStoreChanges
    \/ Tick
    \/ HashSecond

SpecAnchor == InitAnchor /\ [][NextAnchor]_vars

\* ------------------------------------------------------------------------
\* Properties
\* ------------------------------------------------------------------------
\* reader r takes its get_paste step
Fetches(r) == readers[r].pc = "idle" /\ readers'[r].pc # "idle"
\* reader r returns its response in this step
Responds(r) == readers[r].pc # "done" /\ readers'[r].pc = "done"

\* C1: for a burn_after_reading paste with a webhook, the readers of /{id}
\* and /raw/{id} together dispatch exactly one Consumed webhook: never more
\* than one, and the reader whose delete_paste returned true has dispatched it.
C1_ExactlyOneConsumed ==
    /\ \A s \in Serials : webhooks[s].Consumed <= 1
    /\ \A r \in Readers :
         (readers[r].pc = "done" /\ readers[r].deleted
            /\ readers[r].paste.v.metadata.webhook)
         => webhooks[readers[r].paste.v.serial].Consumed = 1

\* C2: of the GET requests (/{id}, /raw/{id}) for one burn_after_reading
\* paste, whatever the interleaving of their get_paste, decrypt and
\* delete_paste steps, only one returns 200 with the content.  Stated for
\* the store without a persistence adapter, the store of the scenario.
C2_ExactlyOne200 ==
    ~persistence => \A s \in Serials : burnReads[s] <= 1

\* C3: once a burn read (/{id}, /raw/{id}) of a paste has passed all gates
\* and returned, the id is not in get_all_paste_ids, and no read that starts
\* later gets that paste from the store (it returns 404).
C3_BurnedStaysGone ==
    [][/\ \A r \in Readers :
            (Responds(r) /\ readers[r].pc = "burn")
            => readers[r].id \notin get_all_paste_ids'
       /\ \A r \in Readers :
            (Fetches(r) /\ readers'[r].paste.some)
            => burnReads[readers'[r].paste.v.serial] = 0]_vars

\* every gate that applies to the paste passes for the request at time t
GatesPass(paste, req, t) ==
    /\ paste.metadata.tor_access_only => is_onion(req)
    /\ ~evaluate_time_lock(paste.metadata, t).some
    /\ paste.metadata.attestation.some
         => verify_attestation(paste.metadata.attestation.v, req, t).verdict
              = "Granted"
    /\ decrypt_content(paste.content, req.key).ok

\* C4: a read endpoint (/{id}, /raw/{id}, /api/pastes/{id}) returns the
\* plaintext only if the tor-scope, time-lock, attestation and decryption
\* gates of the paste all pass.
C4_PlaintextOnlyThroughGates ==
    \A r \in Readers :
        (readers[r].pc = "done" /\ readers[r].resp.body.some)
        => GatesPass(readers[r].paste.v, readers[r].req.v, readers[r].tnow)

\* C5: a read through any endpoint that returns the plaintext of a
\* burn_after_reading paste has deleted the paste from the store when it
\* returns.
C5_BurnReadDeletes ==
    [][\A r \in Readers :
         (Responds(r) /\ readers'[r].resp.body.some
            /\ readers'[r].paste.v.burn_after_reading)
         => ~entries'[readers'[r].id].some]_vars

\* the gates of C6, each on its own
TorFails(paste, req) == paste.metadata.tor_access_only /\ ~is_onion(req)
LockFails(paste, t) == evaluate_time_lock(paste.metadata, t) # None
AttestationStatus(paste, req, t) ==
    IF ~paste.metadata.attestation.some THEN 200
    ELSE LET v == verify_attestation(paste.metadata.attestation.v, req, t)
         IN  IF v.verdict = "Granted" THEN 200
             ELSE IF v.invalid THEN 403 ELSE 401
KeyStatus(paste, req) ==
    LET dec == decrypt_content(paste.content, req.key)
    IN  IF dec.ok THEN 200 ELSE IF dec.err = "MissingKey" THEN 401 ELSE 403

\* C6: a read on /raw/{id} answers with the status of the first failing
\* gate in the order tor-scope (403), time-lock (423), attestation (401
\* missing, 403 wrong), key (401 missing, 403 wrong), whatever the later
\* gates would say, and 200 when no gate fails.
C6_RawGateOrder ==
    \A r \in Readers :
        (readers[r].ep = "show_raw" /\ readers[r].pc \in {"burn", "done"}
            /\ readers[r].result = "Ok")
        => LET paste == readers[r].paste.v
               req == readers[r].req.v
               t == readers[r].tnow
           IN  readers[r].resp.status =
                 IF TorFails(paste, req) THEN 403
                 ELSE IF LockFails(paste, t) THEN 423
                 ELSE IF AttestationStatus(paste, req, t) # 200
                 THEN AttestationStatus(paste, req, t)
                 ELSE KeyStatus(paste, req)

\* a /raw read stopped by the time lock although the attestation and the
\* key would have failed too
C6_Witness ==
    \E r \in Readers :
        /\ readers[r].ep = "show_raw" /\ readers[r].pc = "done"
        /\ readers[r].result = "Ok"
        /\ ~TorFails(readers[r].paste.v, readers[r].req.v)
        /\ LockFails(readers[r].paste.v, readers[r].tnow)
        /\ AttestationStatus(readers[r].paste.v, readers[r].req.v,
                             readers[r].tnow) = 403
        /\ KeyStatus(readers[r].paste.v, readers[r].req.v) = 401
        /\ readers[r].resp.status = 423

\* the record a get_paste step of reader r finds: in the map, or loaded
\* from the adapter
Found(r) ==
    LET id == readers'[r].id
    IN  IF entries[id].some THEN entries[id]
        ELSE IF readers'[r].how = "load_some" THEN persisted[id]
        ELSE None

\* C7: a get_paste that finds a record with expires_at < now, in the map or
\* loaded from the adapter, returns Expired, and the id is not in
\* get_all_paste_ids afterwards.
C7_ExpiredGet ==
    [][\A r \in Readers :
         (Fetches(r) /\ Found(r).some /\ Found(r).v.expires_at.some
            /\ Found(r).v.expires_at.v < now)
         => (readers'[r].result = "Expired"
               /\ readers'[r].id \notin get_all_paste_ids')]_vars

\* a get_paste that loaded an expired record from the adapter has returned
\* Expired
C7_Witness ==
    \E r \in Readers :
        /\ readers[r].pc = "done"
        /\ readers[r].how = "load_some"
        /\ readers[r].result = "Expired"
        /\ readers[r].id \notin get_all_paste_ids

\* C8: a store operation that observes an expired record (get_paste in the
\* map or from the adapter, stats) has deleted it when it returns: it is
\* neither in the map nor in the adapter.
C8_ExpiredObservedIsDeleted ==
    [][/\ \A r \in Readers :
            (Fetches(r) /\ readers'[r].result = "Expired")
            => (~entries'[readers'[r].id].some
                  /\ ~persisted'[readers'[r].id].some)
       /\ (~statsOut.some /\ statsOut'.some /\ statsOut'.v.expired_pastes > 0)
            => \A id \in Ids :
                 ~(entries'[id].some /\ is_expired(entries'[id].v, now))]_vars

\* C9: decrypt_content(encrypt_content(p, k, a), Some(k)) = p for the four
\* algorithms other than None.
C9_RoundTrip ==
    (cry.pc = "decrypted" /\ cry.origin = "encrypt_content"
        /\ cry.algorithm # "None" /\ cry.supplied = Some(cry.key))
    => cry.out = Ok(cry.text)

\* C10: decrypt_content returns MissingKey exactly when the content is
\* Encrypted or Stego and no passphrase is supplied; Plain content comes
\* back as its text with or without a key.
C10_MissingKeyIff ==
    cry.pc = "decrypted"
    => /\ (cry.out = Err("MissingKey"))
            <=> (cry.content.kind \in {"encrypted", "stego"} /\ ~cry.supplied.some)
       /\ cry.content.kind = "plain" => cry.out = Ok(cry.content.text)

\* Stego content decrypted without a passphrase
C10_Witness ==
    /\ cry.pc = "decrypted"
    /\ cry.content.kind = "stego"
    /\ ~cry.supplied.some
    /\ cry.out = Err("MissingKey")

\* C11: with a passphrase supplied for Encrypted or Stego content,
\* decrypt_content fails only with InvalidKey: for a wrong passphrase, for a
\* field that is not base64, for a nonce of the wrong size, for a ciphertext
\* whose tag does not verify, for a plaintext that is not UTF-8 and for a
\* malformed hybrid blob alike.
C11_FailureIsInvalidKey ==
    (cry.pc = "decrypted" /\ cry.content.kind \in {"encrypted", "stego"}
        /\ cry.supplied.some)
    => /\ ~cry.out.ok => cry.out = Err("InvalidKey")
       /\ cry.origin \in TamperKinds => cry.out = Err("InvalidKey")
       /\ (cry.origin = "encrypt_content" /\ cry.supplied.v # cry.key)
            => cry.out = Err("InvalidKey")

\* the right passphrase on a sealed plaintext that is not UTF-8
C11_Witness ==
    /\ cry.pc = "decrypted"
    /\ cry.origin = "not_utf8"
    /\ cry.algorithm = "XChaCha20Poly1305"
    /\ cry.supplied = Some(cry.key)
    /\ cry.out = Err("InvalidKey")

\* C12: a read of a paste increments metadata.access_count of the stored
\* paste by one: the get_paste that returns the paste leaves the record of
\* the map with the count it found plus one.
C12_ReadIncrementsAccessCount ==
    [][\A r \in Readers :
         (Fetches(r) /\ readers'[r].result = "Ok")
         => entries'[readers'[r].id].v.metadata.access_count
              = Found(r).v.metadata.access_count + 1]_vars

\* reader r is cancelled in this step
Cancelled(r) == readers[r].pc \in {"fetched", "burn"} /\ readers'[r].pc = "idle"

\* C13: a reader cancelled before store.delete_paste leaves the map and the
\* adapter as they were, and once a reader was cancelled inside delete_paste
\* after the map removal, no later get_paste returns that paste.
C13_CancellationSafe ==
    [][/\ \A r \in Readers :
            (Cancelled(r) /\ dropped' = dropped)
            => (entries' = entries /\ persisted' = persisted)
       /\ \A r \in Readers :
            (Fetches(r) /\ readers'[r].paste.some)
            => readers'[r].paste.v.serial \notin dropped]_vars

\* C14: in a burn read on /{id} and on /raw/{id} the Viewed webhook is
\* dispatched before store.delete_paste is called, so a reader that stands
\* at the delete (or is cancelled in it) has dispatched Viewed, and Consumed
\* is dispatched only by a reader whose delete_paste returned true.
C14_ViewedBeforeDelete ==
    [][/\ \A r \in Readers :
            (readers'[r].pc = "burn" /\ readers'[r].paste.v.metadata.webhook)
            => webhooks'[readers'[r].paste.v.serial].Viewed >= 1
       /\ \A s \in Serials :
            webhooks'[s].Consumed > webhooks[s].Consumed
            => \E r \in Readers :
                 /\ readers[r].pc = "burn" /\ readers'[r].pc = "done"
                 /\ readers'[r].deleted
                 /\ readers[r].paste.v.serial = s]_vars

\* C15: every read endpoint answers a get_paste that returned NotFound with
\* 404 and a get_paste that returned Expired with 410.
C15_StoreErrorsPropagate ==
    \A r \in Readers :
        readers[r].pc = "done"
        => /\ readers[r].result = "NotFound" => readers[r].resp.status = 404
           /\ readers[r].result = "Expired" => readers[r].resp.status = 410

\* C16: a create request with bundle children is rejected with 400, and
\* inserts nothing, unless it carries an encryption config whose algorithm
\* is not None.
C16_BundleNeedsEncryption ==
    [][(createOut' # createOut /\ createOut'.v.body.bundle.some
          /\ (~createOut'.v.body.encryption.some
                \/ createOut'.v.body.encryption.v.algorithm = "None"))
       => (createOut'.v.status = 400 /\ entries' = entries
             /\ persisted' = persisted)]_vars

\* C17: when a create of a bundle parent succeeds, every pointer of the
\* parent's bundle.children names a paste of the store that has
\* burn_after_reading set, the parent's algorithm and the child's label as
\* bundle_label.
C17_ChildrenCreated ==
    [][(createOut' # createOut /\ createOut'.v.status = 200
          /\ createOut'.v.body.bundle.some)
       => LET parent == entries'[createOut'.v.id.v].v
              children == parent.metadata.bundle.v.children
          IN  \A i \in 1..Len(children) :
                /\ children[i].id \in get_all_paste_ids'
                /\ LET child == entries'[children[i].id].v
                   IN  /\ child.burn_after_reading
                       /\ child.content.kind = parent.content.kind
                       /\ child.content.kind = "encrypted"
                            => child.content.algorithm = parent.content.algorithm
                       /\ child.metadata.bundle_label = children[i].label]_vars

\* C18: a read of a bundle parent before any burn read has completed
\* reports each child as available, and reports a child as consumed only
\* after a burn read.
C18_ChildStatusFollowsReads ==
    \A r \in Readers :
        (readers[r].pc \in {"burn", "done"} /\ readers[r].overview.some
            /\ \A s \in Serials : burnReads[s] = 0)
        => \A i \in 1..Len(readers[r].overview.v) :
             readers[r].overview.v[i].status = "available"

\* the value of allowed_drift is at least n
DriftCovers(allowed_drift, n) == allowed_drift.hi = 1 \/ n <= allowed_drift.lo

\* C20: for a TOTP requirement that requirement_from_request stores (step
\* > 0, digits in 4..10, any allowed_drift) and any clock reading,
\* verify_totp accepts the code of the current counter floor(max(now,0) /
\* step), and accepts a code only if its digits are the code of a counter
\* within allowed_drift of the current one.
C20_TotpWindow ==
    (totp.pc = "verified" /\ totp.code.tag = "totp")
    => LET req == totp.requirement.val
           counter == CurrentCounter(req, totp.t)
           distance == IF totp.code.counter >= counter
                       THEN totp.code.counter - counter
                       ELSE counter - totp.code.counter
       IN  /\ totp.code.counter = counter => totp.out = Returned(TRUE)
           /\ totp.out = Returned(TRUE)
                => DriftCovers(req.allowed_drift, distance)

\* C19: create_paste, get_paste and delete_paste hold the store lock from
\* their first statement to their return, the awaited adapter call
\* included: while one of them awaits its adapter call no other store
\* operation gets past the lock, and the map and the adapter change only
\* by that operation's own step.
C19_StoreOpsAtomic ==
    [][\A t \in Tasks :
         tasks[t].pc = "adapter"
         => /\ \A u \in Tasks \ {t} :
                 tasks[u].pc = "waiting" => tasks'[u].pc = "waiting"
            /\ tasks'[t] = tasks[t]
                 => (entries' = entries /\ persisted' = persisted)]_vars

\* a get_paste waits for the lock while a delete_paste that has removed the
\* id from the map awaits adapter.delete
C19_Witness ==
    \E t, u \in Tasks :
        /\ tasks[t].pc = "adapter" /\ tasks[t].op = "delete_paste"
        /\ tasks[u].pc = "waiting" /\ tasks[u].op = "get_paste"
        /\ ~entries[tasks[t].id].some /\ persisted[tasks[t].id].some

\* now is before not_before / after not_after
Early(c) == c.not_before.some /\ c.t < c.not_before.v
Late(c) == c.not_after.some /\ c.t > c.not_after.v

\* C21: evaluate_time_lock returns TooEarly(not_before) when now <
\* not_before, also when now > not_after holds as well; otherwise
\* TooLate(not_after) when now > not_after; otherwise None, so now equal to
\* one of the bounds is not locked by that bound.
C21_TimeLockOrder ==
    call.pc = "done"
    => /\ Early(call)
            => call.out = Some([state |-> "TooEarly", at |-> call.not_before.v])
       /\ (~Early(call) /\ Late(call))
            => call.out = Some([state |-> "TooLate", at |-> call.not_after.v])
       /\ (~Early(call) /\ ~Late(call)) => call.out = None
       /\ (call.not_before = Some(call.t) /\ call.out.some)
            => call.out.v.state # "TooEarly"
       /\ (call.not_after = Some(call.t) /\ call.out.some)
            => call.out.v.state # "TooLate"

\* both bounds are violated and TooEarly is returned
C21_Witness ==
    /\ call.pc = "done"
    /\ Early(call) /\ Late(call)
    /\ call.out = Some([state |-> "TooEarly", at |-> call.not_before.v])

\* the request carries a time lock whose not_after is not after its
\* not_before
WindowNotOrdered(body) ==
    /\ body.time_lock.some
    /\ body.time_lock.v.not_before.some /\ body.time_lock.v.not_after.some
    /\ LET start == parse_timestamp(body.time_lock.v.not_before.v)
           end == parse_timestamp(body.time_lock.v.not_after.v)
       IN  start.ok /\ end.ok /\ end.val <= start.val

\* the pastes of the store and of the adapter
StoredPastes ==
    {entries[id].v : id \in {i \in Ids : entries[i].some}}
        \cup {persisted[id].v : id \in {i \in Ids : persisted[i].some}}

\* C22: every stored paste that has both not_before and not_after has
\* not_before < not_after, and a create request whose not_after is not
\* after its not_before is answered 400 and stores nothing.
C22_TimeLockWindowOrdered ==
    /\ [](\A paste \in StoredPastes :
            (paste.metadata.not_before.some /\ paste.metadata.not_after.some)
            => paste.metadata.not_before.v < paste.metadata.not_after.v)
    /\ [][(nCreates' # nCreates /\ WindowNotOrdered(createOut'.v.body))
           => (createOut'.v.status = 400 /\ createOut'.v.id = None
                 /\ entries' = entries /\ persisted' = persisted)]_vars

\* a request whose not_after equals its not_before has been refused
C22_Witness ==
    /\ createOut.some
    /\ createOut.v.body.time_lock = LockEmpty
    /\ createOut.v.status = 400
    /\ StoredPastes = {}

\* C23: every stored paste that has an expires_at has created_at <=
\* expires_at, whatever retention_minutes the request carried and however
\* the clock moved between the two reads of create_paste_internal.
C23_CreatedBeforeExpiry ==
    \A paste \in StoredPastes :
        paste.expires_at.some => paste.created_at <= paste.expires_at.v

\* an operation of the store has just run
StoreStep(op) == call'.n # call.n /\ call'.op = op

\* C24: create_paste returns an id that is not a key of the map when it is
\* called, and leaves every paste the map holds in place, also when the
\* adjective-noun-number candidates were all taken and the nanoid is
\* returned.
C24_CreateIdNotLive ==
    [][StoreStep("create_paste")
       => /\ ~entries[call'.id].some
          /\ \A id \in StoreIds : entries[id].some => entries'[id] = entries[id]]_vars

\* capacity_bytes of a carrier
CapacityBytes(image) == (image.width * image.height * 3) \div 8

\* the output differs from the carrier only in the lowest bit of R, G and B
\* at the first n channel positions
DiffersOnlyInLsbs(out, image, n) ==
    /\ out.width = image.width /\ out.height = image.height
    /\ Len(out.pixels) = Len(image.pixels)
    /\ \A i \in 1..Len(image.pixels) : \A c \in 1..4 :
         IF c <= 3 /\ (i - 1) * 3 + c <= n
         THEN out.pixels[i][c] \div 2 = image.pixels[i][c] \div 2
         ELSE out.pixels[i][c] = image.pixels[i][c]

\* C25: for a payload of at most floor(width * height * 3 / 8) bytes the
\* embedding succeeds, and its output has the carrier's dimensions and
\* differs from it only in the lowest bits of R, G and B at the first
\* 8 * (4 + len(payload)) channel positions.
C25_EmbedWithinCapacity ==
    (call.pc = "done" /\ Len(call.payload) <= CapacityBytes(call.image))
    => /\ call.out.ok
       /\ DiffersOnlyInLsbs(call.out.val, call.image,
                            8 * (4 + Len(call.payload)))

\* the operation called the adapter's method once, for the id
CalledOnce(adapter, method, id) ==
    /\ Len(adapter) = 1
    /\ adapter[1].method = method
    /\ adapter[1].id = id

\* C26: delete_paste(id) returns true exactly when the map held id, leaves
\* id out of the map, and with an adapter calls adapter.delete(id) once,
\* also when the map did not hold id and when the adapter fails.
C26_DeleteAlwaysReachesAdapter ==
    [][StoreStep("delete_paste")
       => /\ call'.existed = entries[call'.id].some
          /\ entries' = MapRemove(entries, call'.id)
          /\ persistence => CalledOnce(call'.adapter, "delete", call'.id)
          /\ ~persistence => call'.adapter = <<>>]_vars

\* delete_paste of an id the map did not hold, with a failing adapter
C26_Witness ==
    /\ call.pc = "done" /\ call.op = "delete_paste"
    /\ ~call.existed
    /\ CalledOnce(call.adapter, "delete", call.id)
    /\ call.adapter[1].result = "err"

\* C27: when get_paste misses the map and adapter.load returns a paste that
\* has not expired, the paste is put in the map and returned; while the id
\* stays in the map every later get_paste of it is answered from the map
\* without a call of adapter.load.
C27_LoadedOnce ==
    [][StoreStep("get_paste")
       => /\ (call'.how = "load_some"
                /\ ~is_expired(persisted[call'.id].v, now))
             => /\ call'.result = "Ok"
                /\ call'.paste = persisted[call'.id]
                /\ entries' = MapInsert(entries, call'.id,
                                        persisted[call'.id].v)
          /\ call'.id \in call.loaded
             => (call'.how = "map" /\ entries[call'.id].some)]_vars

\* a get_paste of an id that an earlier get_paste loaded is answered from
\* the map
C27_Witness ==
    /\ call.pc = "done" /\ call.op = "get_paste"
    /\ call.id \in call.loaded
    /\ call.how = "map" /\ call.result = "Ok"

\* C28: when get_paste misses the map and adapter.load returns Ok(None) or
\* an error, get_paste returns NotFound and the map is unchanged.
C28_AdapterMissIsNotFound ==
    [][(StoreStep("get_paste") /\ call'.how \in {"load_none", "load_err"})
       => /\ call'.result = "NotFound"
          /\ call'.paste = None
          /\ entries' = entries]_vars

\* adapter.load failed for an id the adapter holds, and get_paste returned
\* NotFound
C28_Witness ==
    /\ call.pc = "done" /\ call.op = "get_paste"
    /\ call.how = "load_err" /\ call.result = "NotFound"
    /\ persisted[call.id].some

\* C29: create_paste puts the paste in the map under the id it returns and,
\* with an adapter, calls adapter.save once with that id, whether the save
\* succeeds or fails; a paste whose save failed is returned by get_paste
\* from the map as long as it is there and has not expired.
C29_CreateSurvivesFailedSave ==
    /\ [][StoreStep("create_paste")
          => /\ entries' = MapInsert(entries, call'.id, call'.paste)
             /\ persistence => CalledOnce(call'.adapter, "save", call'.id)
             /\ ~persistence => call'.adapter = <<>>]_vars
    /\ [][(StoreStep("get_paste") /\ call'.id \in call.unsaved
            /\ ~is_expired(entries[call'.id].v, now))
          => /\ call'.result = "Ok"
             /\ call'.how = "map"
             /\ call'.paste = entries[call'.id]]_vars

\* a paste whose adapter.save failed has been returned by get_paste
C29_Witness ==
    /\ call.pc = "done" /\ call.op = "get_paste"
    /\ call.id \in call.unsaved
    /\ ~persisted[call.id].some
    /\ call.result = "Ok" /\ call.how = "map"

InputSupplied(requirement, query) ==
    IF requirement.kind = "totp"
    THEN query.code.some /\ query.code.v.tag # "blank"
    ELSE query.attest.some /\ query.attest.v # ""

\* the input is the right one: a code of a counter within allowed_drift of
\* the current one, or a text whose hash is the stored hash
InputMatches(requirement, query, t) ==
    IF requirement.kind = "totp"
    THEN /\ query.code.v.tag = "totp"
         /\ query.code.v.digits = requirement.digits
         /\ Some(query.code.v.key) = decode_totp_secret(requirement.secret)
         /\ LET counter == CurrentCounter(requirement, t)
                distance == IF query.code.v.counter >= counter
                            THEN query.code.v.counter - counter
                            ELSE counter - query.code.v.counter
            IN  DriftCovers(requirement.allowed_drift, distance)
    ELSE SharedSecretHash(query.attest.v) = requirement.hash

\* C31: verify_attestation returns Prompt{invalid: false} exactly when no
\* input was supplied for the variant of the requirement, Prompt{invalid:
\* true} exactly when an input was supplied and does not match, and Granted
\* exactly when it matches; show_raw answers 401, 403, and goes on to the
\* decrypt gate.
C31_VerdictFollowsInput ==
    call.pc = "verified"
    => LET req == call.requirement.val
           supplied == InputSupplied(req, call.query)
           matches == supplied /\ InputMatches(req, call.query, call.t)
       IN  /\ ~supplied
              => (call.out = Verdict("Prompt", FALSE)
                    /\ call.raw = Some(Resp(401, "unauthorized", None)))
           /\ (supplied /\ ~matches)
              => (call.out = Verdict("Prompt", TRUE)
                    /\ call.raw = Some(Resp(403, "forbidden", None)))
           /\ matches
              => (call.out = Verdict("Granted", FALSE) /\ call.raw = None)

\* C32: when requirement_from_request accepted the shared secret s at
\* creation, verify_attestation with attest = s returns Granted, also when
\* s has blanks before or after it.
C32_SameSecretGranted ==
    (call.pc = "verified" /\ call.request.kind = "shared_secret"
       /\ call.query.attest = Some(call.request.secret))
    => call.out = Verdict("Granted", FALSE)

\* the steps of reader r outside the burn pipeline: get_paste, the gates and
\* the return
ReadStep(r) ==
    /\ readers'[r] # readers[r]
    /\ readers[r].pc \in {"idle", "fetched"}
    /\ readers'[r].pc \in {"fetched", "done"}

\* the step changes the map only as get_paste does: it inserts the copy it
\* loaded from the adapter, or removes an expired entry
OnlyGetPasteChanges(r) ==
    \/ entries' = entries
    \/ /\ readers[r].pc = "idle"
       /\ readers'[r].how = "load_some" /\ readers'[r].result = "Ok"
       /\ entries' = MapInsert(entries, readers'[r].id,
                               persisted[readers'[r].id].v)
    \/ /\ readers[r].pc = "idle"
       /\ readers'[r].how = "map" /\ readers'[r].result = "Expired"
       /\ entries' = MapRemove(entries, readers'[r].id)

\* the read got a paste and failed a gate, or the paste is not a burn paste
FailedOrNotBurn(reader) ==
    /\ reader.pc = "done" /\ reader.result = "Ok"
    /\ (~reader.resp.body.some \/ ~reader.paste.v.burn_after_reading)

Removed(id) ==
    /\ call.pc = "done" /\ call.op = "delete_paste"
    /\ call.id = id /\ call.existed

\* C34: once delete_paste(id) has removed a paste, a later get_paste(id)
\* does not return that paste, whatever the adapter does, a failing
\* adapter.delete included.  Stated for the get_paste that follows the
\* delete_paste directly.
C34_DeletedStaysGone ==
    [][\A id \in StoreIds :
          (Removed(id) /\ StoreStep("get_paste") /\ call'.id = id)
          => call'.result # "Ok"]_vars

\* the get_paste(id) of one parent read is followed directly by the
\* get_paste(id) of the next parent read, with no other store call between
NextParentRead(id) ==
    /\ call.pc = "done" /\ call.op = "get_paste" /\ call.id = id
    /\ StoreStep("get_paste") /\ call'.id = id

\* C35: the status build_bundle_overview reports for a child is stable under
\* repeated parent reads: with no read or delete of the child between them, a
\* child reported expired by one parent read is reported expired, not
\* consumed, by the next.
C35_ExpiredChildStaysExpired ==
    [][\A id \in StoreIds :
          (NextParentRead(id) /\ ChildStatus(call.result) = "expired")
          => ChildStatus(call'.result) = "expired"]_vars

\* C36: embed_message fails exactly when 8 * (4 + len(payload)) exceeds
\* width * height * 3, the error is PayloadTooLarge with required =
\* len(payload) and capacity = floor(width * height * 3 / 8), and the carrier
\* is unmodified after a failure; a 1x1 carrier with a 16-byte payload gives
\* PayloadTooLarge {required: 16, capacity: 0}.
C36_PayloadTooLarge ==
    (call.pc = "done")
    => LET capacity_bits == call.image.width * call.image.height * 3
       IN  /\ ~call.out.ok <=> 8 * (4 + Len(call.payload)) > capacity_bits
           /\ ~call.out.ok
                => /\ call.out.err
                        = [kind |-> "PayloadTooLarge",
                           required |-> Len(call.payload),
                           capacity |-> capacity_bits \div 8]
                   /\ call.carrier = call.image
           /\ (capacity_bits = 3 /\ Len(call.payload) = 16)
                => call.out = Err([kind |-> "PayloadTooLarge",
                                   required |-> 16, capacity |-> 0])

\* the 16-byte payload was refused for the 1x1 carrier
C36_Witness ==
    /\ call.pc = "done"
    /\ call.image.width = 1 /\ call.image.height = 1
    /\ call.payload = TestPayload
    /\ ~call.out.ok /\ call.carrier = call.image

\* C37 as amended: the Redis adapter writes a paste whose expires_at is later
\* than its clock reading with setex and TTL = expires_at - now, and every
\* other paste (no expires_at, or expires_at not later than now) with a plain
\* set without TTL.
C37_TtlWhenRemaining ==
    (call.pc = "done")
    => IF call.paste.expires_at.some /\ call.paste.expires_at.v > call.t
       THEN /\ call.out.command = "setex"
            /\ call.out.ttl = Some(call.paste.expires_at.v - call.t)
       ELSE call.out.command = "set" /\ call.out.ttl = None

\* C37: every paste with expires_at is written with TTL = expires_at - now,
\* and only pastes without expires_at are written with a plain set.
C37_ExpiryAlwaysTtl ==
    (call.pc = "done")
    => /\ call.paste.expires_at.some
            => /\ call.out.command = "setex"
               /\ call.out.ttl = Some(call.paste.expires_at.v - call.t)
       /\ call.out.command = "set" => ~call.paste.expires_at.some

\* a paste whose expires_at has passed was written with a plain set
C37_Witness ==
    /\ call.pc = "done"
    /\ call.paste.expires_at.some /\ call.paste.expires_at.v <= call.t
    /\ call.out.command = "set" /\ call.out.ttl = None

\* C38: encrypt_content and decrypt_content have no suspension point: an
\* encryption is never waiting for I/O, so no step of another task falls
\* between its start and its return.
C38_CryptoDoesNotSuspend ==
    /\ [](cry.pc # "verify")
    /\ [][cry.pc = "verify" => call' = call]_vars

\* the counts of a set of FormatUsage or EncryptionUsage records added up
RECURSIVE SumCounts(_)
SumCounts(usage) ==
    IF usage = {} THEN 0
    ELSE LET u == CHOOSE x \in usage : TRUE
         IN  u.count + SumCounts(usage \ {u})

\* C39: in every store state stats() reports total_pastes = active_pastes +
\* expired_pastes = the number of ids get_all_paste_ids returns, the format
\* counts and the encryption counts each add up to total_pastes,
\* time_locked_count is the number of records with not_before or not_after
\* set, and stats() leaves the map unchanged.
C39_StatsConsistent ==
    /\ []((call.pc = "done" /\ call.op = "stats")
          => /\ call.out.total_pastes
                  = call.out.active_pastes + call.out.expired_pastes
             /\ call.out.total_pastes = Cardinality(call.ids)
             /\ call.ids = {id \in StoreIds : entries[id].some}
             /\ SumCounts(call.out.formats) = call.out.total_pastes
             /\ SumCounts(call.out.encryption_usage) = call.out.total_pastes
             /\ call.out.time_locked_count
                  = Cardinality({id \in call.ids :
                                   \/ entries[id].v.metadata.not_before.some
                                   \/ entries[id].v.metadata.not_after.some}))
    /\ [][StoreStep("stats")
           => (entries' = entries /\ persisted' = persisted)]_vars

\* stats() counted two pastes, one of them expired and one of them with a
\* single bound of the time lock
C39_Witness ==
    /\ call.pc = "done" /\ call.op = "stats"
    /\ call.out.total_pastes = 2
    /\ call.out.expired_pastes = 1
    /\ call.out.time_locked_count = 1
    /\ \E id \in call.ids :
         entries[id].v.metadata.not_before.some
            # entries[id].v.metadata.not_after.some

====
